---- MODULE Spec2Model ----
(***************************************************************************)
(* Model of the external-request gateway of mas-ai-assistent: the trace    *)
(* store (traceStore.ts), the credential resolver and provider gateway     *)
(* (providers.ts), the Maximo gateway (maximo.ts), the settings store      *)
(* (config.ts) and the HTTP routes with their tracing middleware           *)
(* (index.ts).                                                             *)
(*                                                                         *)
(* JavaScript strings that the code inspects (trim, toLowerCase, includes, *)
(* startsWith, regex replace) are sequences of one-character strings.      *)
(* JavaScript objects are functions whose DOMAIN is the set of keys that   *)
(* are present; an absent key is `undefined`.                              *)
(***************************************************************************)
EXTENDS Integers, Sequences, FiniteSets, TLC

VARIABLES
    items,      \* traceStore.ts: const items: TraceItem[]
    state,      \* traceStore.ts: let state: TraceState
    clock,      \* source of makeId() / new Date(): one tick per created item
    adds,       \* the addTrace calls made since the store was last emptied
    inMemory,   \* config.ts: inMemory.secrets
    req,        \* the inbound HTTP requests being handled, one per connection
    nreq,       \* number of inbound requests accepted so far
    call        \* harness for the pure functions: last call and its result

vars == <<items, state, clock, adds, inMemory, req, nreq, call>>

----------------------------------------------------------------------------
(* Bounds of the model *)

MaxAdds == 5        \* addTrace calls made by the store harness
MaxCap == 3         \* largest maxItems a state patch sets
MaxReqs == 2        \* inbound requests accepted by the server
MaxWords == 3       \* words in a prompt of the classification harness
MaxHeld == 3        \* items held by the store when listTraces is called
MaxLimit == 3       \* largest small limit passed to listTraces
MaxWrites == 2      \* updateConfig patches applied by the settings harness
MaxSegs == 3        \* path segments of a configured backend base URL
MaxIds == 3         \* ids in a model listing
MaxTail == 20       \* characters of a serialized payload after its first run

----------------------------------------------------------------------------
(* JavaScript strings and objects *)

Min(a, b) == IF a < b THEN a ELSE b
Max(a, b) == IF a > b THEN a ELSE b

Has(o, k) == k \in DOMAIN o

\* {...a, ...b}
Merge(a, b) == [k \in (DOMAIN a) \cup (DOMAIN b) |-> IF k \in DOMAIN b THEN b[k] ELSE a[k]]

\* o[k] used as a string where `undefined` and "" are both falsy
Str(o, k) == IF Has(o, k) THEN o[k] ELSE <<>>

Upper == <<"A","B","C","D","E","F","G","H","I","J","K","L","M",
           "N","O","P","Q","R","S","T","U","V","W","X","Y","Z">>
Lower == <<"a","b","c","d","e","f","g","h","i","j","k","l","m",
           "n","o","p","q","r","s","t","u","v","w","x","y","z">>

LowerChar(c) ==
    IF \E i \in 1..26 : Upper[i] = c
    THEN Lower[CHOOSE i \in 1..26 : Upper[i] = c]
    ELSE c

\* String.prototype.toLowerCase
ToLowerCase(s) == [i \in 1..Len(s) |-> LowerChar(s[i])]

WhiteSpace == {" ", "\t", "\n"}

RECURSIVE TrimStart(_)
TrimStart(s) == IF s # <<>> /\ s[1] \in WhiteSpace THEN TrimStart(Tail(s)) ELSE s

RECURSIVE TrimEnd(_)
TrimEnd(s) ==
    IF s # <<>> /\ s[Len(s)] \in WhiteSpace THEN TrimEnd(SubSeq(s, 1, Len(s) - 1)) ELSE s

\* String.prototype.trim
Trim(s) == TrimEnd(TrimStart(s))

\* String.prototype.startsWith
StartsWith(s, p) == Len(p) <= Len(s) /\ SubSeq(s, 1, Len(p)) = p

\* String.prototype.includes
Includes(s, sub) ==
    \E i \in 1..(Len(s) - Len(sub) + 1) : SubSeq(s, i, i + Len(sub) - 1) = sub

----------------------------------------------------------------------------
(* traceStore.ts *)

DefaultMaxItems == 500

TraceKinds == {"ai", "maximo", "rest", "ui", "system", "models"}

\* the fields of the caller's partial that addTrace copies into the item
CopiedFields == {"kind", "label", "method", "url", "status", "durationMs",
                 "request", "response", "error"}

\* the item built by addTrace: id and ts come from the caller or are generated
MakeItem(partial, tick) ==
    [f \in {"id", "ts"} \cup (DOMAIN partial \cap CopiedFields) |->
        IF f \in {"id", "ts"}
        THEN (IF Has(partial, f) THEN partial[f] ELSE tick)
        ELSE partial[f]]

\* A slip: the enabled flag is not looked at.
AddTraceAlways(its, st, partial, tick) ==
    LET un == <<MakeItem(partial, tick)>> \o its IN
    IF Len(un) > st.maxItems
    THEN IF st.maxItems < 0
         THEN [items |-> un, threw |-> TRUE]
         ELSE [items |-> SubSeq(un, 1, st.maxItems), threw |-> FALSE]
    ELSE [items |-> un, threw |-> FALSE]

\* A slip: the item is pushed at the back instead of the front.
AddTraceAtBack(its, st, partial, tick) ==
    IF ~st.enabled THEN [items |-> its, threw |-> FALSE]
    ELSE LET un == Append(its, MakeItem(partial, tick)) IN
         IF Len(un) > st.maxItems
         THEN IF st.maxItems < 0
              THEN [items |-> un, threw |-> TRUE]
              ELSE [items |-> SubSeq(un, 1, st.maxItems), threw |-> FALSE]
         ELSE [items |-> un, threw |-> FALSE]

\* A slip: the sequence is cut from the front, which keeps the oldest items.
AddTraceKeepOldest(its, st, partial, tick) ==
    IF ~st.enabled THEN [items |-> its, threw |-> FALSE]
    ELSE LET un == <<MakeItem(partial, tick)>> \o its IN
         IF Len(un) > st.maxItems
         THEN IF st.maxItems < 0
              THEN [items |-> un, threw |-> TRUE]
              ELSE [items |-> SubSeq(un, Len(un) - st.maxItems + 1, Len(un)), threw |-> FALSE]
         ELSE [items |-> un, threw |-> FALSE]

\* addTrace(partial) on the store (its, st): the new sequence, and whether the
\* call raised.  `items.length = n` raises RangeError for a negative n, after
\* the unshift has taken place.
AddTrace(its, st, partial, tick) ==
    IF ~st.enabled THEN [items |-> its, threw |-> FALSE]
    ELSE LET un == <<MakeItem(partial, tick)>> \o its IN
         IF Len(un) > st.maxItems
         THEN IF st.maxItems < 0
              THEN [items |-> un, threw |-> TRUE]
              ELSE [items |-> SubSeq(un, 1, st.maxItems), threw |-> FALSE]
         ELSE [items |-> un, threw |-> FALSE]

SelectKind(its, kind) == SelectSeq(its, LAMBDA i : i.kind = kind)

\* A slip: the slice is taken from the back of the sequence.
ListTracesFromBack(its, st, kind, limit) ==
    LET filtered == IF kind # "" THEN SelectKind(its, kind) ELSE its
        n == Max(1, Min(limit, st.maxItems))
    IN  SubSeq(filtered, Len(filtered) - Min(n, Len(filtered)) + 1, Len(filtered))

\* listTraces(kind?, limit); kind = "" stands for no kind
ListTraces(its, st, kind, limit) ==
    LET filtered == IF kind # "" THEN SelectKind(its, kind) ELSE its
        n == Max(1, Min(limit, st.maxItems))
    IN  SubSeq(filtered, 1, Min(n, Len(filtered)))

\* A slip: the patch is merged into the initial state, not the current one.
SetTraceStateFromDefaults(st, patch) ==
    Merge([enabled |-> TRUE, maxItems |-> DefaultMaxItems], patch)

\* setTraceState(patch)
SetTraceState(st, patch) == Merge(st, patch)

----------------------------------------------------------------------------
(* providers.ts: credentials *)

P_openai == <<"o","p","e","n","a","i">>
P_mistral == <<"m","i","s","t","r","a","l">>
P_watsonx == <<"w","a","t","s","o","n","x">>
P_deepseek == <<"d","e","e","p","s","e","e","k">>
P_anthropic == <<"a","n","t","h","r","o","p","i","c">>
P_gemini == <<"g","e","m","i","n","i">>
P_other == <<"o","t","h","e","r">>

OPENAI_COMPATIBLE == {P_openai, P_mistral, P_watsonx, P_deepseek}

\* the keys of `map` in resolveProviderAuth, with the settings fields they read
ProviderFields ==
    { [name |-> P_openai, key |-> "openai_key", baseurl |-> "openai_baseurl", base |-> "openai_base"],
      [name |-> P_mistral, key |-> "mistral_key", baseurl |-> "mistral_baseurl", base |-> "mistral_base"],
      [name |-> P_deepseek, key |-> "deepseek_key", baseurl |-> "deepseek_baseurl", base |-> "deepseek_base"],
      [name |-> P_watsonx, key |-> "watsonx_key", baseurl |-> "watsonx_baseurl", base |-> "watsonx_base"],
      [name |-> P_anthropic, key |-> "anthropic_key", baseurl |-> "anthropic_baseurl", base |-> "anthropic_base"],
      [name |-> P_gemini, key |-> "gemini_key", baseurl |-> "gemini_baseurl", base |-> "gemini_base"] }

\* a || b on strings
Or(a, b) == IF a # <<>> THEN a ELSE b

\* map[provider] || {}
MapEntry(secrets, provider) ==
    IF \E f \in ProviderFields : f.name = provider
    THEN LET f == CHOOSE f \in ProviderFields : f.name = provider
         IN  [key |-> Str(secrets, f.key),
              baseUrl |-> Or(Str(secrets, f.baseurl), Str(secrets, f.base))]
    ELSE [key |-> <<>>, baseUrl |-> <<>>]

\* an object {apiKey, baseUrl} in which an empty value is `undefined`
AuthObject(apiKey, baseUrl) ==
    [k \in {x \in {"apiKey"} : apiKey # <<>>} \cup {x \in {"baseUrl"} : baseUrl # <<>>} |->
        IF k = "apiKey" THEN apiKey ELSE baseUrl]

\* A slip: the generic fields are used for whichever provider is asked for.
ResolveProviderAuthAnyGeneric(secrets, provider) ==
    LET entry == MapEntry(secrets, provider)
    IN  AuthObject(Or(Trim(entry.key), Trim(Str(secrets, "aiApiKey"))),
                   Or(Trim(entry.baseUrl), Trim(Str(secrets, "aiBaseUrl"))))

\* resolveProviderAuth(secrets, provider)
ResolveProviderAuth(secrets, provider) ==
    LET entry == MapEntry(secrets, provider)
        chosenKey == Trim(entry.key)
        chosenBase == Trim(entry.baseUrl)
        genericProvider == ToLowerCase(Str(secrets, "aiProvider"))
        allowGeneric == genericProvider = provider
        fallbackKey == IF allowGeneric THEN Trim(Str(secrets, "aiApiKey")) ELSE <<>>
        fallbackBase == IF allowGeneric THEN Trim(Str(secrets, "aiBaseUrl")) ELSE <<>>
    IN  AuthObject(Or(chosenKey, fallbackKey), Or(chosenBase, fallbackBase))

----------------------------------------------------------------------------
(* config.ts *)

\* process.env.APP_CONFIG_JSON is not set: safeParse("") is {}
BootstrapSecrets == <<>>

\* normalizeSecrets(s)
NormalizeSecrets(s) ==
    LET alias(o, to, from) ==
            IF ~Has(o, to) /\ Str(o, from) # <<>> THEN Merge(o, [k \in {to} |-> o[from]]) ELSE o
        o1 == alias(s, "maximoUrl", "maximo_url")
        o2 == alias(o1, "maximoApiKey", "maximo_apikey")
        o3 == IF Str(o2, "aiProvider") = <<>> /\ Str(o2, "provider") # <<>>
              THEN Merge(o2, [k \in {"aiProvider"} |-> o2["provider"]]) ELSE o2
        o4 == alias(o3, "openai_baseurl", "openai_base")
        o5 == alias(o4, "anthropic_baseurl", "anthropic_base")
        o6 == alias(o5, "gemini_baseurl", "gemini_base")
        o7 == alias(o6, "mistral_baseurl", "mistral_base")
        o8 == alias(o7, "deepseek_baseurl", "deepseek_base")
    IN  alias(o8, "watsonx_baseurl", "watsonx_base")

\* getConfig().secrets
GetConfigSecrets(mem) == NormalizeSecrets(Merge(BootstrapSecrets, mem))

\* updateConfig(patch): the new inMemory.secrets; body is the request body
UpdateConfig(mem, body) ==
    IF Has(body, "secrets") THEN Merge(mem, NormalizeSecrets(body.secrets)) ELSE mem

\* getSelectedProvider()
GetSelectedProvider(mem) ==
    LET p == ToLowerCase(Or(Str(GetConfigSecrets(mem), "aiProvider"), P_openai))
    IN  IF p \in {P_anthropic, P_gemini, P_mistral, P_watsonx, P_deepseek} THEN p ELSE P_openai

----------------------------------------------------------------------------
(* JavaScript values carried in bodies and trace items.  A parsed JSON value *)
(* is [json |-> v], a raw text is [text |-> t], null is JNull.  Texts of     *)
(* upstream bodies and error messages are opaque and kept as TLA+ strings.   *)

JNull == [null |-> TRUE]
JVal(v) == [json |-> v]
JText(t) == [text |-> t]

\* JSON.stringify(v, null, 2): the JSON text of v
JsonStringify(v) == [jsonTextOf |-> v]

\* the upstream bodies of the model and what JSON.parse makes of them
Body_member == "{\"member\":[{\"wonum\":\"1001\"}]}"
Body_models == "{\"data\":[{\"id\":\"gpt-4o\"}]}"
Body_choices == "{\"choices\":[{\"message\":{\"content\":\"hello\"}}]}"
Body_error == "{\"error\":{\"message\":\"upstream refused\"}}"
Body_html == "<html>Bad gateway</html>"

JsonParse(text) ==
    CASE text = Body_member -> [ok |-> TRUE, value |-> [member |-> <<[wonum |-> "1001"]>>]]
      [] text = Body_models -> [ok |-> TRUE, value |-> [data |-> <<[id |-> <<"g","p","t","-","4","o">>]>>]]
      [] text = Body_choices ->
            [ok |-> TRUE, value |-> [choices |-> <<[message |-> [content |-> "hello"]]>>]]
      [] text = Body_error -> [ok |-> TRUE, value |-> [error |-> [message |-> "upstream refused"]]]
      [] OTHER -> [ok |-> FALSE]

\* `data ?? text` after  let data = null; try { data = JSON.parse(text) } catch {}
DataOrText(text) == IF JsonParse(text).ok THEN JVal(JsonParse(text).value) ELSE JText(text)

\* resp.ok
IsOk(status) == status >= 200 /\ status <= 299

----------------------------------------------------------------------------
(* URLs.  A URL is a sequence of characters; a query string that no code     *)
(* looks into is one opaque element of the sequence.                         *)

HTTP == <<"h","t","t","p",":","/","/">>

\* s.replace(/\/$/, "")
StripTrailingSlash(s) ==
    IF s # <<>> /\ s[Len(s)] = "/" THEN SubSeq(s, 1, Len(s) - 1) ELSE s

\* positions i of s at which /\/(oslc|api)(\/.*)?$/i matches (s holds no line break)
ApiSuffixAt(s, i) ==
    /\ s[i] = "/"
    /\ \E w \in {<<"o","s","l","c">>, <<"a","p","i">>} :
        /\ i + Len(w) <= Len(s)
        /\ ToLowerCase(SubSeq(s, i + 1, i + Len(w))) = w
        /\ (i + Len(w) = Len(s) \/ s[i + Len(w) + 1] = "/")

\* s.replace(/\/(oslc|api)(\/.*)?$/i, ""): the leftmost match is removed
StripApiSuffix(s) ==
    IF \E i \in 1..Len(s) : ApiSuffixAt(s, i)
    THEN LET i == CHOOSE i \in 1..Len(s) :
                    ApiSuffixAt(s, i) /\ \A j \in 1..(i - 1) : ~ApiSuffixAt(s, j)
         IN  SubSeq(s, 1, i - 1)
    ELSE s

\* the two replace calls of callMaximoWith and of POST /api/proxy
NormalizeBase(base) == StripApiSuffix(StripTrailingSlash(base))

\* encodeURIComponent over the characters of the model
EncodeChar(c) ==
    CASE c = "/" -> <<"%","2","F">>
      [] c = " " -> <<"%","2","0">>
      [] c = "?" -> <<"%","3","F">>
      [] OTHER -> <<c>>

RECURSIVE EncodeURIComponent(_)
EncodeURIComponent(s) ==
    IF s = <<>> THEN <<>> ELSE EncodeChar(s[1]) \o EncodeURIComponent(Tail(s))

----------------------------------------------------------------------------
(* index.ts, POST /api/chat: heuristic routing of a Maximo prompt *)

OS_wo == <<"m","x","a","p","i","w","o">>
OS_asset == <<"m","x","a","p","i","a","s","s","e","t">>
OS_sr == <<"m","x","a","p","i","s","r">>
OS_inv == <<"m","x","a","p","i","i","n","v">>
OS_location == <<"m","x","a","p","i","l","o","c","a","t","i","o","n">>

Select_wo == "wonum,description,status,worktype,siteid,orgid,location,assetnum,reportdate"
Select_sr == "ticketid,description,status,reportedby,reportdate,siteid,orgid,location,assetnum"
Select_asset == "assetnum,description,location,parent,assethealth,siteid,assettype"
Select_inv == "itemnum,description,location,siteid,curbal,issueunit"
Select_location == "location,description,parent,siteid,type"

Where_corrective == "woclass=\"WORKORDER\" and worktype=\"CORRECTIVE\""
Where_open == "woclass=\"WORKORDER\" and status not in [\"CLOSE\",\"CAN\",\"CANCEL\",\"COMP\"]"

\* defaultSelectByOS[key], "" when the key is not in the table
DefaultSelectByOS(key) ==
    CASE key = OS_asset -> Select_asset
      [] key = OS_wo -> Select_wo
      [] key = OS_sr -> Select_sr
      [] key = OS_inv -> Select_inv
      [] key = OS_location -> Select_location
      [] OTHER -> ""

IsWO(lower) ==
    \/ Includes(lower, <<"w","o","r","k"," ","o","r","d","e","r">>)
    \/ Includes(lower, <<"w","o","r","k","o","r","d","e","r">>)
    \/ Includes(lower, <<"w","o">>)

IsSR(lower) ==
    \/ Includes(lower, <<"s","e","r","v","i","c","e"," ","r","e","q","u","e","s","t">>)
    \/ Includes(lower, <<"s","e","r","v","i","c","e","r","e","q","u","e","s","t">>)
    \/ Includes(lower, <<"s","r">>)

\* A slip: asset is looked for before location.
ChooseOSAssetFirst(lower, uiOS) ==
    IF uiOS # <<>> THEN uiOS
    ELSE IF Includes(lower, <<"a","s","s","e","t">>) THEN OS_asset
    ELSE IF Includes(lower, <<"l","o","c","a","t","i","o","n">>) THEN OS_location
    ELSE IF IsSR(lower) THEN OS_sr
    ELSE IF Includes(lower, <<"i","n","v","e","n","t","o","r","y">>) THEN OS_inv
    ELSE OS_wo

\* lines 162-176: the object structure queried
ChooseOS(lower, uiOS) ==
    IF uiOS # <<>> THEN uiOS
    ELSE IF Includes(lower, <<"l","o","c","a","t","i","o","n">>) THEN OS_location
    ELSE IF Includes(lower, <<"a","s","s","e","t">>) THEN OS_asset
    ELSE IF IsSR(lower) THEN OS_sr
    ELSE IF Includes(lower, <<"i","n","v","e","n","t","o","r","y">>) THEN OS_inv
    ELSE OS_wo

\* A slip: the rule for open work orders is left out.
CompoundRuleNoOpen(lower) ==
    IF Includes(lower, <<"c","o","r","r","e","c","t","i","v","e">>) /\ IsWO(lower)
    THEN [where |-> Where_corrective, select |-> Select_wo, pageSize |-> 100]
    ELSE IF IsSR(lower) /\ Includes(lower, <<"a","l","l">>)
    THEN [where |-> "", select |-> Select_sr, pageSize |-> 100]
    ELSE [where |-> "", select |-> "", pageSize |-> 50]

\* lines 187-199: the compound rules
CompoundRule(lower) ==
    IF Includes(lower, <<"c","o","r","r","e","c","t","i","v","e">>) /\ IsWO(lower)
    THEN [where |-> Where_corrective, select |-> Select_wo, pageSize |-> 100]
    ELSE IF Includes(lower, <<"o","p","e","n">>) /\ IsWO(lower)
    THEN [where |-> Where_open, select |-> Select_wo, pageSize |-> 100]
    ELSE IF IsSR(lower) /\ Includes(lower, <<"a","l","l">>)
    THEN [where |-> "", select |-> Select_sr, pageSize |-> 100]
    ELSE [where |-> "", select |-> "", pageSize |-> 50]

\* A slip: only the exact phrase is recognized.
IsSummarizeExactPhrase(lower) ==
    Includes(lower, <<"s","u","m","m","a","r","i","z","e"," ","t","h","e"," ","l","a","s","t"," ","m","a","x","i","m","o"," ","r","e","s","u","l","t","s">>)

\* line 202: the summarize-last-results intent
IsSummarize(lower) ==
    \/ Includes(lower, <<"s","u","m","m","a","r","i","z","e"," ","t","h","e"," ","l","a","s","t"," ","m","a","x","i","m","o"," ","r","e","s","u","l","t","s">>)
    \/ /\ Includes(lower, <<"s","u","m","m","a","r","i","z","e">>)
       /\ Includes(lower, <<"l","a","s","t">>)
       /\ Includes(lower, <<"m","a","x","i","m","o">>)

\* lines 161-199 and 243-247: the query built for the prompt q
Classify(q, uiOS) ==
    LET lower == ToLowerCase(q)
        os == ChooseOS(lower, uiOS)
        rule == CompoundRule(lower)
        def == DefaultSelectByOS(ToLowerCase(os))
    IN  [os |-> os, where |-> rule.where,
         select |-> IF rule.select = "" THEN def ELSE rule.select,
         pageSize |-> rule.pageSize]

\* URLSearchParams serialisation of one value
FormEncode(v) ==
    CASE v = Select_wo -> "wonum%2Cdescription%2Cstatus%2Cworktype%2Csiteid%2Corgid%2Clocation%2Cassetnum%2Creportdate"
      [] v = Select_sr -> "ticketid%2Cdescription%2Cstatus%2Creportedby%2Creportdate%2Csiteid%2Corgid%2Clocation%2Cassetnum"
      [] v = Select_asset -> "assetnum%2Cdescription%2Clocation%2Cparent%2Cassethealth%2Csiteid%2Cassettype"
      [] v = Select_inv -> "itemnum%2Cdescription%2Clocation%2Csiteid%2Ccurbal%2Cissueunit"
      [] v = Select_location -> "location%2Cdescription%2Cparent%2Csiteid%2Ctype"
      [] v = Where_corrective -> "woclass%3D%22WORKORDER%22+and+worktype%3D%22CORRECTIVE%22"
      [] v = Where_open -> "woclass%3D%22WORKORDER%22+and+status+not+in+%5B%22CLOSE%22%2C%22CAN%22%2C%22CANCEL%22%2C%22COMP%22%5D"

\* String(pageSize)
PageSizeString(n) == IF n = 100 THEN "100" ELSE "50"

\* lines 249-254: `/api/os/${encodeURIComponent(os)}?${params.toString()}`
QueryPath(c) ==
    <<"/","a","p","i","/","o","s","/">> \o EncodeURIComponent(c.os) \o <<"?", "oslc.pageSize=", PageSizeString(c.pageSize)>>
        \o (IF c.select # "" THEN <<"&oslc.select=", FormEncode(c.select)>> ELSE <<>>)
        \o (IF c.where # "" THEN <<"&oslc.where=", FormEncode(c.where)>> ELSE <<>>)

----------------------------------------------------------------------------
(* Recording a trace item from inside a handler.  A context carries the      *)
(* store as the handler sees it while it runs, and `traced`, the items the   *)
(* handler has created so far.                                               *)

Msg(s) == [msg |-> s]

\* RangeError raised by `items.length = state.maxItems`
RangeErrorMsg == Msg("Invalid array length")

\* TypeError raised by fetch when the connection cannot be made
FetchFailedMsg == Msg("fetch failed")

Restrict(f, keys) == [k \in DOMAIN f \cap keys |-> f[k]]

Trace(ctx, partial) ==
    LET r == AddTrace(ctx.items, ctx.state, partial, ctx.clock + 1)
        made == ctx.state.enabled
    IN  [ctx |-> [items |-> r.items, state |-> ctx.state,
                  clock |-> IF made THEN ctx.clock + 1 ELSE ctx.clock,
                  traced |-> IF made
                             THEN Append(ctx.traced,
                                         Restrict(MakeItem(partial, ctx.clock + 1),
                                                  {"id", "kind", "status", "durationMs"}))
                             ELSE ctx.traced],
         threw |-> r.threw]

----------------------------------------------------------------------------
(* maximo.ts *)

\* callMaximoWith up to the fetch: an error, or the request that is sent
CallMaximoStart(secrets, path, method) ==
    LET base == Or(Str(secrets, "maximoUrl"), Str(secrets, "maximo_url"))
        apiKey == Or(Str(secrets, "maximoApiKey"), Str(secrets, "maximo_apikey"))
    IN  IF base = <<>> THEN [err |-> Msg("Maximo Manage URL is not configured.")]
        ELSE IF apiKey = <<>> THEN [err |-> Msg("Maximo API key is not configured.")]
        ELSE [fetch |-> [url |-> NormalizeBase(base)
                                   \o (IF StartsWith(path, <<"/">>) THEN path ELSE <<"/">> \o path),
                         method |-> method,
                         headers |-> [ContentType |-> "application/json",
                                      maxauth |-> apiKey, apikey |-> apiKey]]]

\* A slip: the call is not recorded in the trace store.
CallMaximoDoneUntraced(ctx, f, t0, out) ==
    IF out.fail THEN [ctx |-> ctx, err |-> FetchFailedMsg]
    ELSE IF ~IsOk(out.status)
    THEN [ctx |-> ctx, err |-> [msg |-> "Maximo error", status |-> out.status, text |-> out.text]]
    ELSE [ctx |-> ctx, value |-> DataOrText(out.text)]

\* callMaximoWith from the fetch on; out is what the fetch produced
CallMaximoDone(ctx, f, t0, out) ==
    IF out.fail THEN [ctx |-> ctx, err |-> FetchFailedMsg]
    ELSE LET t == Trace(ctx, [kind |-> "maximo", label |-> "Maximo call", method |-> f.method,
                              url |-> f.url, status |-> out.status,
                              durationMs |-> ctx.clock - t0,
                              request |-> JNull, response |-> DataOrText(out.text)])
         IN  IF t.threw THEN [ctx |-> t.ctx, err |-> RangeErrorMsg]
             ELSE IF ~IsOk(out.status)
             THEN [ctx |-> t.ctx,
                   err |-> [msg |-> "Maximo error", status |-> out.status, text |-> out.text]]
             ELSE [ctx |-> t.ctx, value |-> DataOrText(out.text)]

----------------------------------------------------------------------------
(* providers.ts: chat completion *)

OpenAIDefaultBase == <<"h","t","t","p","s",":","/","/","a","p","i",".","o","p","e","n","a","i",".","c","o","m","/","v","1">>
AnthropicDefaultBase == <<"h","t","t","p","s",":","/","/","a","p","i",".","a","n","t","h","r","o","p","i","c",".","c","o","m">>
GeminiDefaultBase == <<"h","t","t","p","s",":","/","/","g","e","n","e","r","a","t","i","v","e","l","a","n","g","u","a","g","e",".","g","o","o","g","l","e","a","p","i","s",".","c","o","m","/","v","1","b","e","t","a">>

DefaultModel == <<"g","p","t","-","4","o","-","m","i","n","i">>

\* A slip: a provider that is not known is called as an OpenAI-compatible one.
ChatCompletionStartAnyProvider(args) ==
    IF Str(args, "apiKey") = <<>> THEN [err |-> Msg("AI API key is not configured.")]
    ELSE [fetch |-> [url |-> StripTrailingSlash(Or(Str(args, "baseUrl"), OpenAIDefaultBase))
                               \o <<"/","c","h","a","t","/","c","o","m","p","l","e","t","i","o","n","s">>,
                     method |-> "POST", label |-> "Chat completion",
                     body |-> Restrict(args, {"model", "system", "prompt", "temperature"}),
                     headers |-> [Authorization |-> <<"Bearer ">> \o Trim(Str(args, "apiKey")),
                                  ContentType |-> "application/json"]]]

\* A slip: the provider is dispatched before the key is looked at.
ChatCompletionStartNoKeyCheck(args) ==
    LET apiKey == Str(args, "apiKey")
        baseUrl == Str(args, "baseUrl")
        body == Restrict(args, {"model", "system", "prompt", "temperature"})
    IN  IF args.provider \in OPENAI_COMPATIBLE
        THEN [fetch |-> [url |-> StripTrailingSlash(Or(baseUrl, OpenAIDefaultBase))
                                   \o <<"/","c","h","a","t","/","c","o","m","p","l","e","t","i","o","n","s">>,
                         method |-> "POST", label |-> "Chat completion", body |-> body,
                         headers |-> [Authorization |-> <<"Bearer ">> \o Trim(apiKey),
                                      ContentType |-> "application/json"]]]
        ELSE [err |-> [msg |-> "Provider is not supported by this build.",
                       provider |-> args.provider]]

\* chatCompletionWith up to the fetch: an error, or the request that is sent
ChatCompletionStart(args) ==
    LET apiKey == Str(args, "apiKey")
        baseUrl == Str(args, "baseUrl")
        body == Restrict(args, {"model", "system", "prompt", "temperature"})
    IN  IF apiKey = <<>> THEN [err |-> Msg("AI API key is not configured.")]
        ELSE IF args.provider \in OPENAI_COMPATIBLE
        THEN [fetch |-> [url |-> StripTrailingSlash(Or(baseUrl, OpenAIDefaultBase))
                                   \o <<"/","c","h","a","t","/","c","o","m","p","l","e","t","i","o","n","s">>,
                         method |-> "POST", label |-> "Chat completion", body |-> body,
                         headers |-> [Authorization |-> <<"Bearer ">> \o Trim(apiKey),
                                      ContentType |-> "application/json"]]]
        ELSE IF args.provider = P_anthropic
        THEN [fetch |-> [url |-> StripTrailingSlash(Or(baseUrl, AnthropicDefaultBase))
                                   \o <<"/","v","1","/","m","e","s","s","a","g","e","s">>,
                         method |-> "POST", label |-> "Anthropic messages", body |-> body,
                         headers |-> [xapikey |-> apiKey, anthropicversion |-> "2023-06-01",
                                      ContentType |-> "application/json"]]]
        ELSE IF args.provider = P_gemini
        THEN [fetch |-> [url |-> StripTrailingSlash(Or(baseUrl, GeminiDefaultBase))
                                   \o <<"/","m","o","d","e","l","s","/">> \o EncodeURIComponent(args.model)
                                   \o <<":","g","e","n","e","r","a","t","e","C","o","n","t","e","n","t","?","k","e","y","=">> \o EncodeURIComponent(apiKey),
                         method |-> "POST", label |-> "Gemini generateContent", body |-> body,
                         headers |-> [ContentType |-> "application/json"]]]
        ELSE [err |-> [msg |-> "Provider is not supported by this build.",
                       provider |-> args.provider]]

\* data?.choices?.[0]?.message?.content ?? "" (and the like for the other two
\* protocols, whose fields none of the bodies of the model carries)
ReplyContent(f, text) ==
    LET p == JsonParse(text) IN
    IF f.label = "Chat completion" /\ p.ok /\ Has(p.value, "choices") /\ p.value.choices # <<>>
    THEN p.value.choices[1].message.content
    ELSE ""

\* data?.error?.message || text || `AI provider error (${resp.status})`
UpstreamErrorMsg(out) ==
    LET p == JsonParse(out.text) IN
    IF p.ok /\ Has(p.value, "error") THEN Msg(p.value.error.message)
    ELSE IF out.text # "" THEN Msg(out.text)
    ELSE [msg |-> "AI provider error", status |-> out.status]

\* chatCompletionWith from the fetch on
ChatCompletionDone(ctx, f, t0, out) ==
    IF out.fail THEN [ctx |-> ctx, err |-> FetchFailedMsg]
    ELSE LET t == Trace(ctx, [kind |-> "ai", label |-> f.label, method |-> "POST",
                              url |-> f.url, status |-> out.status,
                              durationMs |-> ctx.clock - t0,
                              request |-> JVal(f.body), response |-> DataOrText(out.text)])
         IN  IF t.threw THEN [ctx |-> t.ctx, err |-> RangeErrorMsg]
             ELSE IF ~IsOk(out.status) THEN [ctx |-> t.ctx, err |-> UpstreamErrorMsg(out)]
             ELSE [ctx |-> t.ctx,
                   value |-> [content |-> ReplyContent(f, out.text),
                              raw |-> IF JsonParse(out.text).ok
                                      THEN JVal(JsonParse(out.text).value) ELSE JNull]]

----------------------------------------------------------------------------
(* providers.ts: model listing *)

Digits == <<"0","1","2","3","4","5","6","7","8","9">>

IsDigit(c) == \E i \in 1..10 : Digits[i] = c
DigitValue(c) == (CHOOSE i \in 1..10 : Digits[i] = c) - 1

\* the characters that collate before the digits, in collation order
Punctuation == <<" ", "_","-",",",";",":","!","?",".","(",")","@","*","/","&","#","%","+","=">>

IsLetter(c) == \E i \in 1..26 : Lower[i] = LowerChar(c)

\* primary collation weight of a character that is not a digit
Weight(c) ==
    IF IsLetter(c) THEN 100 + (CHOOSE i \in 1..26 : Lower[i] = LowerChar(c))
    ELSE IF \E i \in 1..Len(Punctuation) : Punctuation[i] = c
    THEN CHOOSE i \in 1..Len(Punctuation) : Punctuation[i] = c
    ELSE 99

\* primary weight of the first element of a string: digits lie between the
\* punctuation and the letters
HeadWeight(s) == IF IsDigit(s[1]) THEN 100 ELSE Weight(s[1])

RECURSIVE DigitRunLen(_)
DigitRunLen(s) == IF s # <<>> /\ IsDigit(s[1]) THEN 1 + DigitRunLen(Tail(s)) ELSE 0

RECURSIVE NumberOf(_)
NumberOf(ds) ==
    IF ds = <<>> THEN 0 ELSE 10 * NumberOf(SubSeq(ds, 1, Len(ds) - 1)) + DigitValue(ds[Len(ds)])

Sign(n) == IF n < 0 THEN -1 ELSE IF n > 0 THEN 1 ELSE 0

\* the primary level of a.localeCompare(b, undefined, {numeric: true})
RECURSIVE ComparePrimary(_, _)
ComparePrimary(a, b) ==
    IF a = <<>> \/ b = <<>> THEN Sign(Len(a) - Len(b))
    ELSE IF IsDigit(a[1]) /\ IsDigit(b[1])
    THEN LET la == DigitRunLen(a)
             lb == DigitRunLen(b)
             na == NumberOf(SubSeq(a, 1, la))
             nb == NumberOf(SubSeq(b, 1, lb))
         IN  IF na # nb THEN Sign(na - nb)
             ELSE ComparePrimary(SubSeq(a, la + 1, Len(a)), SubSeq(b, lb + 1, Len(b)))
    ELSE IF HeadWeight(a) # HeadWeight(b) THEN Sign(HeadWeight(a) - HeadWeight(b))
    ELSE ComparePrimary(Tail(a), Tail(b))

\* the case level: at the first difference in case the lower-case letter is first
RECURSIVE CompareCase(_, _)
CompareCase(a, b) ==
    IF a = <<>> \/ b = <<>> THEN 0
    ELSE IF a[1] = b[1] THEN CompareCase(Tail(a), Tail(b))
    ELSE IF LowerChar(a[1]) = LowerChar(b[1]) THEN (IF a[1] = LowerChar(a[1]) THEN -1 ELSE 1)
    ELSE CompareCase(Tail(a), Tail(b))

\* a.localeCompare(b, undefined, {numeric: true})
LocaleCompare(a, b) ==
    IF ComparePrimary(a, b) # 0 THEN ComparePrimary(a, b) ELSE CompareCase(a, b)

\* insertion of x into a sorted sequence, after the elements that are not greater
RECURSIVE InsertSorted(_, _)
InsertSorted(x, sorted) ==
    IF sorted = <<>> THEN <<x>>
    ELSE IF LocaleCompare(x, sorted[1]) < 0 THEN <<x>> \o sorted
    ELSE <<sorted[1]>> \o InsertSorted(x, Tail(sorted))

\* Array.prototype.sort with the comparator above (a stable sort)
RECURSIVE SortIds(_)
SortIds(s) ==
    IF s = <<>> THEN <<>> ELSE InsertSorted(s[Len(s)], SortIds(SubSeq(s, 1, Len(s) - 1)))

\* Array.from(new Set(ids.filter(Boolean)))
RECURSIVE Uniq(_)
Uniq(s) ==
    IF s = <<>> THEN <<>>
    ELSE LET init == Uniq(SubSeq(s, 1, Len(s) - 1))
             x == s[Len(s)]
         IN  IF x = <<>> \/ \E i \in 1..Len(init) : init[i] = x THEN init ELSE Append(init, x)

LegacyWords == {<<"d","a","v","i","n","c","i">>, <<"c","u","r","i","e">>, <<"b","a","b","b","a","g","e">>, <<"a","d","a">>, <<"t","e","x","t","-">>, <<"c","o","d","e","-">>, <<"i","n","s","t","r","u","c","t">>, <<"d","e","p","r","e","c","a","t","e","d">>}

\* the two regular expressions of filterModelIds
IsPreferred(id) ==
    LET l == ToLowerCase(id) IN
    /\ \/ StartsWith(l, <<"g","p","t","-">>)
       \/ (Len(l) >= 2 /\ l[1] = "o" /\ IsDigit(l[2]))
       \/ StartsWith(l, <<"c","h","a","t","g","p","t">>)
    /\ ~\E w \in LegacyWords : Includes(l, w)

\* A slip: the ids are returned in the order of the listing.
FilterModelIdsUnsorted(provider, ids) ==
    LET uniq == Uniq(ids)
        preferred == SelectSeq(uniq, IsPreferred)
    IN  IF provider # P_openai THEN uniq
        ELSE IF preferred # <<>> THEN preferred ELSE uniq

\* filterModelIds(provider, ids)
FilterModelIds(provider, ids) ==
    LET uniq == Uniq(ids)
        preferred == SelectSeq(uniq, IsPreferred)
    IN  IF provider # P_openai THEN uniq
        ELSE SortIds(IF preferred # <<>> THEN preferred ELSE uniq)

\* fallbackByProvider[provider] || []
FallbackByProvider(provider) ==
    CASE provider = P_openai ->
           <<<<"g","p","t","-","4","o">>,
       <<"g","p","t","-","4","o","-","m","i","n","i">>,
       <<"g","p","t","-","4",".","1">>,
       <<"g","p","t","-","4",".","1","-","m","i","n","i">>>>
      [] provider = P_mistral ->
           <<<<"m","i","s","t","r","a","l","-","l","a","r","g","e","-","l","a","t","e","s","t">>,
       <<"m","i","s","t","r","a","l","-","s","m","a","l","l","-","l","a","t","e","s","t">>,
       <<"c","o","d","e","s","t","r","a","l","-","l","a","t","e","s","t">>>>
      [] provider = P_deepseek ->
           <<<<"d","e","e","p","s","e","e","k","-","c","h","a","t">>,
       <<"d","e","e","p","s","e","e","k","-","r","e","a","s","o","n","e","r">>>>
      [] provider = P_watsonx ->
           <<<<"i","b","m","/","g","r","a","n","i","t","e","-","2","0","b","-","m","u","l","t","i","l","i","n","g","u","a","l">>>>
      [] OTHER -> <<>>

CuratedAnthropic ==
    <<<<"c","l","a","u","d","e","-","3","-","5","-","s","o","n","n","e","t","-","l","a","t","e","s","t">>,
       <<"c","l","a","u","d","e","-","3","-","5","-","h","a","i","k","u","-","l","a","t","e","s","t">>,
       <<"c","l","a","u","d","e","-","3","-","o","p","u","s","-","l","a","t","e","s","t">>>>

CuratedGemini ==
    <<<<"g","e","m","i","n","i","-","1",".","5","-","p","r","o">>,
       <<"g","e","m","i","n","i","-","1",".","5","-","f","l","a","s","h">>,
       <<"g","e","m","i","n","i","-","2",".","0","-","f","l","a","s","h">>>>

\* listModelsWithSecrets up to the fetch: the list returned, or the request sent
ListModelsStart(secrets, provider) ==
    LET auth == ResolveProviderAuth(secrets, provider) IN
    IF provider = P_anthropic THEN [value |-> CuratedAnthropic]
    ELSE IF provider = P_gemini THEN [value |-> CuratedGemini]
    ELSE IF ~Has(auth, "apiKey") THEN [value |-> FallbackByProvider(provider)]
    ELSE IF provider \notin OPENAI_COMPATIBLE THEN [value |-> FallbackByProvider(provider)]
    ELSE [fetch |-> [url |-> StripTrailingSlash(Or(Str(auth, "baseUrl"), OpenAIDefaultBase))
                               \o <<"/","m","o","d","e","l","s">>,
                     method |-> "GET",
                     headers |-> [Authorization |-> <<"Bearer ">> \o Trim(auth.apiKey)]]]

\* lines 166-168: the ids returned for the ids of a successful listing
ListedModels(provider, ids) ==
    LET filteredIds == FilterModelIds(provider, ids)
    IN  IF filteredIds # <<>> THEN filteredIds ELSE FallbackByProvider(provider)

\* the ids of `data.data` of a parsed listing
ListedIds(value) ==
    IF Has(value, "data") THEN [i \in 1..Len(value.data) |-> value.data[i].id] ELSE <<>>

ModelsPartial(provider, f, ok, status, body, duration) ==
    [kind |-> "models", provider |-> provider, ok |-> ok, durationMs |-> duration,
     request |-> JVal([url |-> f.url, method |-> "GET"]),
     response |-> JVal([status |-> status, body |-> body])]

\* the catch block of listModelsWithSecrets, entered with the error err
ListModelsCatch(ctx, provider, f, t0, err) ==
    LET t == Trace(ctx, ModelsPartial(provider, f, FALSE, 0, err, ctx.clock - t0)) IN
    IF t.threw THEN [ctx |-> t.ctx, err |-> RangeErrorMsg]
    ELSE [ctx |-> t.ctx, value |-> FallbackByProvider(provider)]

\* listModelsWithSecrets from the fetch on
ListModelsDone(ctx, provider, f, t0, out) ==
    IF out.fail THEN ListModelsCatch(ctx, provider, f, t0, FetchFailedMsg)
    ELSE LET p == JsonParse(out.text)
             t == Trace(ctx, ModelsPartial(provider, f, IF p.ok THEN IsOk(out.status) ELSE FALSE,
                                           out.status, DataOrText(out.text), ctx.clock - t0))
         IN  IF t.threw THEN ListModelsCatch(t.ctx, provider, f, t0, RangeErrorMsg)
             ELSE IF ~p.ok \/ ~IsOk(out.status)
             THEN [ctx |-> t.ctx, value |-> FallbackByProvider(provider)]
             ELSE [ctx |-> t.ctx, value |-> ListedModels(provider, ListedIds(p.value))]

----------------------------------------------------------------------------
(* Initial state: the module-level values after the server has loaded *)

\* the run of addTrace calls made since the store was last emptied, kept as long
\* as every call of it was made on an enabled store with one capacity m >= 0
NoRun == [ok |-> TRUE, m |-> 0, ids |-> <<>>]
BrokenRun == [ok |-> FALSE, m |-> 0, ids |-> <<>>]

ExtendRun(run, st, tick) ==
    IF run.ok /\ st.enabled /\ st.maxItems >= 0 /\ (run.ids = <<>> \/ run.m = st.maxItems)
    THEN [ok |-> TRUE, m |-> st.maxItems, ids |-> Append(run.ids, tick)]
    ELSE BrokenRun

NoCall == [fn |-> "none"]

Conns == {"c1", "c2"}

Idle == [pc |-> "idle"]

Init ==
    /\ items = <<>>
    /\ state = [enabled |-> TRUE, maxItems |-> DefaultMaxItems]
    /\ clock = 0
    /\ adds = NoRun
    /\ inMemory = <<>>
    /\ req = [c \in Conns |-> Idle]
    /\ nreq = 0
    /\ call = NoCall

----------------------------------------------------------------------------
(* index.ts: the HTTP server.  A request being handled is a record: its      *)
(* method and url, its body `in`, the clock value at which the middleware    *)
(* saw it, the network calls it has issued (`fetches`) and the trace items   *)
(* it has created (`traced`).  While its handler awaits a fetch, pc is       *)
(* "await" and `f` is the request in flight; once the response is sent, pc   *)
(* is "done" and `res` is the response.  `outs` are the outcomes of its      *)
(* fetches, and `shown` the items GET /api/trace would list right after the  *)
(* response, when the trace state was `store`.                              *)

\* the store as a handler finds it when it starts to run
Ctx(traced) == [items |-> items, state |-> state, clock |-> clock, traced |-> traced]

NewRequest(method, url, body) ==
    [id |-> nreq + 1, method |-> method, url |-> url, in |-> body, started |-> clock,
     fetches |-> <<>>, outs |-> <<>>, traced |-> <<>>]

\* the handler of r has received the outcome of its fetch
Got(r, out) == [r EXCEPT !.outs = Append(@, out)]

\* the id and kind of the items listed by GET /api/trace
Shown(its, st) ==
    LET listed == ListTraces(its, st, "", 200)
    IN  {Restrict(listed[i], {"id", "kind"}) : i \in 1..Len(listed)}

\* A slip: the item carries the status of a success whatever is sent.
SendJsonStatusOk(ctx, r, code, body) ==
    Trace(ctx, [kind |-> "rest", label |-> "API", method |-> r.method, url |-> r.url,
                status |-> 200, durationMs |-> ctx.clock - r.started,
                request |-> JVal(r.in), response |-> JVal(body)]).ctx

\* lines 29-45: res.json as replaced by the tracing middleware
SendJson(ctx, r, code, body) ==
    Trace(ctx, [kind |-> "rest", label |-> "API", method |-> r.method, url |-> r.url,
                status |-> code, durationMs |-> ctx.clock - r.started,
                request |-> JVal(r.in), response |-> JVal(body)]).ctx

\* the handler of connection c sends its response and ends
Respond(c, r, ctx, code, body) ==
    LET sent == SendJson(ctx, r, code, body) IN
    /\ items' = sent.items
    /\ clock' = sent.clock
    /\ req' = [req EXCEPT ![c] =
                  [pc |-> "done", id |-> r.id, method |-> r.method, url |-> r.url, in |-> r.in,
                   fetches |-> r.fetches, outs |-> r.outs, traced |-> sent.traced,
                   shown |-> Shown(sent.items, sent.state),
                   store |-> Restrict(sent.state, {"enabled", "maxItems"}),
                   res |-> [status |-> code, body |-> body]]]

\* A slip: the request is sent a second time.
AwaitSendsTwice(c, r, f, k) ==
    /\ req' = [req EXCEPT ![c] =
                  [pc |-> "await", id |-> r.id, method |-> r.method, url |-> r.url, in |-> r.in,
                   started |-> r.started, fetches |-> Append(Append(r.fetches, f), f),
                   outs |-> r.outs, traced |-> r.traced,
                   f |-> f, t0 |-> clock, k |-> k]]
    /\ UNCHANGED <<items, clock>>

\* the handler of connection c issues the request f and awaits the response
Await(c, r, f, k) ==
    /\ req' = [req EXCEPT ![c] =
                  [pc |-> "await", id |-> r.id, method |-> r.method, url |-> r.url, in |-> r.in,
                   started |-> r.started, fetches |-> Append(r.fetches, f), outs |-> r.outs,
                   traced |-> r.traced,
                   f |-> f, t0 |-> clock, k |-> k]]
    /\ UNCHANGED <<items, clock>>

\* the handler's promise is rejected and nothing catches it: no response is
\* sent, and Node ends the process or leaves the request hanging
Unhandled(c, r, ctx, err) ==
    /\ items' = ctx.items
    /\ clock' = ctx.clock
    /\ req' = [req EXCEPT ![c] =
                  [pc |-> "unhandled", id |-> r.id, method |-> r.method, url |-> r.url,
                   in |-> r.in, fetches |-> r.fetches, outs |-> r.outs, traced |-> ctx.traced,
                   store |-> Restrict(ctx.state, {"enabled", "maxItems"}), err |-> err]]

Free(c) == req[c].pc \in {"idle", "done", "unhandled"} /\ nreq < MaxReqs

\* what a fetch can produce: a transport failure, or a response
Outcomes(okBody) ==
    { [fail |-> TRUE],
      [fail |-> FALSE, status |-> 200, text |-> okBody],
      [fail |-> FALSE, status |-> 500, text |-> Body_error],
      [fail |-> FALSE, status |-> 200, text |-> Body_html] }

U_api_trace_state == <<"/","a","p","i","/","t","r","a","c","e","/","s","t","a","t","e">>
U_api_trace_clear == <<"/","a","p","i","/","t","r","a","c","e","/","c","l","e","a","r">>
U_api_trace == <<"/","a","p","i","/","t","r","a","c","e">>
U_api_config == <<"/","a","p","i","/","c","o","n","f","i","g">>
U_api_chat == <<"/","a","p","i","/","c","h","a","t">>
U_api_models == <<"/","a","p","i","/","m","o","d","e","l","s">>
U_api_proxy == <<"/","a","p","i","/","p","r","o","x","y">>

----------------------------------------------------------------------------
(* Trace and configuration routes *)

ServerStatePatches ==
    { [enabled |-> FALSE], [maxItems |-> -1], [maxItems |-> 1], [maxItems |-> 2] }

\* PUT /api/trace/state
PutTraceState ==
    /\ \E c \in Conns, patch \in ServerStatePatches :
        /\ Free(c)
        /\ state' = SetTraceState(state, patch)
        /\ Respond(c, NewRequest("PUT", U_api_trace_state, patch),
                   [Ctx(<<>>) EXCEPT !.state = state'], 200, state')
    /\ nreq' = nreq + 1
    /\ UNCHANGED <<adds, inMemory, call>>

\* A slip: the route answers without emptying the store.
PostTraceClearKeepsItems ==
    /\ \E c \in Conns :
        /\ Free(c)
        /\ Respond(c, NewRequest("POST", U_api_trace_clear, <<>>), Ctx(<<>>), 200, [ok |-> TRUE])
    /\ nreq' = nreq + 1
    /\ UNCHANGED <<state, adds, inMemory, call>>

\* POST /api/trace/clear
PostTraceClear ==
    /\ \E c \in Conns :
        /\ Free(c)
        /\ Respond(c, NewRequest("POST", U_api_trace_clear, <<>>),
                   [Ctx(<<>>) EXCEPT !.items = <<>>], 200, [ok |-> TRUE])
    /\ nreq' = nreq + 1
    /\ UNCHANGED <<state, adds, inMemory, call>>

\* GET /api/trace
GetTrace ==
    /\ \E c \in Conns :
        /\ Free(c)
        /\ Respond(c, NewRequest("GET", U_api_trace, <<>>), Ctx(<<>>), 200,
                   [items |-> ListTraces(items, state, "", 200), state |-> state])
    /\ nreq' = nreq + 1
    /\ UNCHANGED <<state, adds, inMemory, call>>

K_maximo == <<"m","k","1">>
K_openai == <<"k","1">>
U_maximo_api == HTTP \o <<"m","/","a","p","i">>

ConfigBodies ==
    { [secrets |-> [maximoUrl |-> HTTP \o <<"m">>, maximoApiKey |-> K_maximo]],
      [secrets |-> [openai_key |-> K_openai]] }

\* PUT /api/config
PutConfig ==
    /\ \E c \in Conns, body \in ConfigBodies :
        /\ Free(c)
        /\ inMemory' = UpdateConfig(inMemory, body)
        /\ Respond(c, NewRequest("PUT", U_api_config, body), Ctx(<<>>), 200,
                   [secrets |-> GetConfigSecrets(inMemory')])
    /\ nreq' = nreq + 1
    /\ UNCHANGED <<state, adds, call>>

----------------------------------------------------------------------------
(* POST /api/chat *)

T_hello == <<"h","e","l","l","o">>
T_openWO == <<"s","h","o","w"," ","m","e"," ","a","l","l"," ","o","p","e","n"," ","w","o","r","k"," ","o","r","d","e","r","s">>
T_summarize == <<"S","u","m","m","a","r","i","z","e"," ","t","h","e"," ","l","a","s","t"," ","M","a","x","i","m","o"," ","r","e","s","u","l","t","s">>
T_summarizeAssets == <<"s","u","m","m","a","r","i","z","e"," ","t","h","e"," ","l","a","s","t"," ","a","s","s","e","t"," ","r","e","s","u","l","t","s"," ","f","r","o","m"," ","M","a","x","i","m","o">>
M_maximo == <<"m","a","x","i","m","o">>
M_ai == <<"a","i">>

MaximoSettings == [maximoUrl |-> U_maximo_api, maximoApiKey |-> K_maximo]
OpenAISettings == [openai_key |-> K_openai]

ChatBodies ==
    { [mode |-> M_ai, provider |-> P_openai, text |-> T_hello],
      [mode |-> M_ai, provider |-> P_openai, text |-> T_hello, settings |-> OpenAISettings],
      [mode |-> M_maximo, text |-> T_openWO],
      [mode |-> M_maximo, text |-> T_openWO, settings |-> MaximoSettings],
      [mode |-> M_maximo, provider |-> P_openai, text |-> T_summarize,
       settings |-> OpenAISettings],
      [mode |-> M_maximo, provider |-> P_openai, text |-> T_summarizeAssets,
       maximoOS |-> OS_asset, settings |-> OpenAISettings] }

SummarySystemPrompt == "You are an assistant helping summarize IBM Maximo REST query results."
SummaryPromptPrefix == "Summarize the following Maximo results (JSON)."
NoResultsMsg == Msg("No previous Maximo results found to summarize (Trace is empty).")

PayloadLimit == 120000

\* JSON.stringify(v).length for the values the upstream bodies of the model give
PayloadLength(v) ==
    CASE v = DataOrText(Body_member) -> 29
      [] v = DataOrText(Body_models) -> 26
      [] v = DataOrText(Body_choices) -> 45
      [] v = DataOrText(Body_error) -> 40
      [] v = DataOrText(Body_html) -> 26
      [] OTHER -> 2

\* lines 214-220: the payload appended to the summary prompt
SummaryPayload(v) ==
    IF PayloadLength(v) > PayloadLimit
    THEN [of |-> v, chars |-> PayloadLimit, marker |-> "\n...TRUNCATED"]
    ELSE [of |-> v, chars |-> PayloadLength(v)]

\* a JavaScript value used as a condition
Truthy(v) == v # JText("") /\ v # JNull

\* lines 135-146: the fields read from the request body
ChatMode(body) ==
    IF ToLowerCase(Or(Str(body, "mode"), Or(Str(body, "src"), M_ai))) = M_maximo
    THEN "maximo" ELSE "ai"
ChatText(body) == Or(Str(body, "text"), Str(body, "prompt"))
ChatProvider(body, mem) == ToLowerCase(Or(Str(body, "provider"), GetSelectedProvider(mem)))
ChatSettings(body) == IF Has(body, "settings") THEN body.settings ELSE <<>>
MergedSecrets(body, mem) == Merge(GetConfigSecrets(mem), ChatSettings(body))
ChatModel(body, mem) ==
    Or(Trim(Str(body, "model")), Or(Str(MergedSecrets(body, mem), "aiModel"), DefaultModel))
ChatUiOS(body) == Trim(Or(Str(body, "maximoOS"), Or(Str(body, "maximoOs"), Str(body, "os"))))

\* the arguments handed to chatCompletionWith
ChatArgs(body, mem, system, prompt) ==
    Merge(ResolveProviderAuth(MergedSecrets(body, mem), ChatProvider(body, mem)),
          Merge([provider |-> ChatProvider(body, mem), model |-> ChatModel(body, mem),
                 temperature |-> "0.2", prompt |-> prompt],
                IF system # "" THEN [system |-> system] ELSE <<>>))

\* the handler up to its first await: `respond` with a response, or `fetch`
\* with the request sent and what the handler needs when the response comes
ChatStart(body, mem, its, st) ==
    LET q == Trim(ChatText(body))
        lower == ToLowerCase(q)
        secrets == MergedSecrets(body, mem)
        viaMaximo(branch, path, extra) ==
            LET m == CallMaximoStart(secrets, path, "GET") IN
            IF Has(m, "err") THEN [respond |-> [status |-> 400, body |-> [error |-> m.err]]]
            ELSE [fetch |-> m.fetch, k |-> Merge([route |-> "chat", branch |-> branch], extra)]
        viaChat(branch, args, extra) ==
            LET a == ChatCompletionStart(args) IN
            IF Has(a, "err") THEN [respond |-> [status |-> 400, body |-> [error |-> a.err]]]
            ELSE [fetch |-> a.fetch, k |-> Merge([route |-> "chat", branch |-> branch], extra)]
    IN  IF ChatMode(body) = "maximo"
        THEN IF StartsWith(q, <<"/">>) THEN viaMaximo("path", q, <<>>)
             ELSE IF IsSummarize(lower)
             THEN LET found == ListTraces(its, st, "maximo", 1)
                      hasLast == found # <<>> /\ Has(found[1], "response")
                                 /\ Truthy(found[1].response)
                  IN  IF ~hasLast THEN [respond |-> [status |-> 400, body |-> [error |-> NoResultsMsg]]]
                      ELSE viaChat("summarize",
                                   ChatArgs(body, mem,
                                            IF Has(body, "system") THEN body.system
                                            ELSE SummarySystemPrompt,
                                            [prefix |-> SummaryPromptPrefix,
                                             payload |-> SummaryPayload(found[1].response)]),
                                   [last |-> found[1].response])
             ELSE viaMaximo("query", QueryPath(Classify(q, ChatUiOS(body))),
                            [query |-> Classify(q, ChatUiOS(body))])
        ELSE viaChat("ai",
                     ChatArgs(body, mem, IF Has(body, "system") THEN body.system ELSE "",
                              [text |-> ChatText(body)]),
                     <<>>)

\* the handler from the response of its fetch on: the response it sends
ChatFinish(ctx, r, out) ==
    IF r.k.branch \in {"ai", "summarize"}
    THEN LET d == ChatCompletionDone(ctx, r.f, r.t0, out) IN
         IF Has(d, "err") THEN [ctx |-> d.ctx, status |-> 400, body |-> [error |-> d.err]]
         ELSE IF r.k.branch = "ai"
         THEN [ctx |-> d.ctx, status |-> 200,
               body |-> [reply |-> d.value.content, raw |-> d.value.raw]]
         ELSE [ctx |-> d.ctx, status |-> 200,
               body |-> [reply |-> d.value.content, maximo |-> r.k.last,
                         request |-> [summaryOf |-> "last-maximo"]]]
    ELSE LET d == CallMaximoDone(ctx, r.f, r.t0, out) IN
         IF Has(d, "err") THEN [ctx |-> d.ctx, status |-> 400, body |-> [error |-> d.err]]
         ELSE IF r.k.branch = "path"
         THEN [ctx |-> d.ctx, status |-> 200,
               body |-> [reply |-> JsonStringify(d.value), maximo |-> d.value]]
         ELSE [ctx |-> d.ctx, status |-> 200,
               body |-> [reply |-> JsonStringify(d.value), maximo |-> d.value,
                         request |-> r.k.query]]

\* POST /api/chat, up to the response or to the await of the upstream call
PostChat ==
    /\ \E c \in Conns, body \in ChatBodies :
        /\ Free(c)
        /\ LET r == NewRequest("POST", U_api_chat, body)
               s == ChatStart(body, inMemory, items, state)
           IN  IF Has(s, "respond")
               THEN Respond(c, r, Ctx(<<>>), s.respond.status, s.respond.body)
               ELSE Await(c, r, s.fetch, s.k)
    /\ nreq' = nreq + 1
    /\ UNCHANGED <<state, adds, inMemory, call>>

\* POST /api/chat, from the response of the upstream call on
ChatReceive ==
    /\ \E c \in Conns :
        /\ req[c].pc = "await"
        /\ req[c].k.route = "chat"
        /\ \E out \in Outcomes(IF req[c].k.branch \in {"ai", "summarize"}
                               THEN Body_choices ELSE Body_member) :
            LET fin == ChatFinish(Ctx(req[c].traced), req[c], out)
            IN  Respond(c, Got(req[c], out), fin.ctx, fin.status, fin.body)
    /\ UNCHANGED <<state, adds, inMemory, nreq, call>>

----------------------------------------------------------------------------
(* GET and POST /api/models *)

ModelsBodies ==
    { [provider |-> P_openai], [provider |-> P_openai, settings |-> OpenAISettings] }

U_api_models_openai == U_api_models \o <<"?provider=openai">>

\* models.map(m => typeof m === "string" ? m : String(m?.id || m)); a ModelInfo
\* is represented by its id
ModelNames(models) == [i \in 1..Len(models) |-> models[i]]

\* a models route up to the response or the await; caught tells whether the
\* handler wraps the listing in try/catch
ModelsStart(c, r, secrets, provider, caught) ==
    LET s == ListModelsStart(secrets, provider) IN
    IF Has(s, "value")
    THEN Respond(c, r, Ctx(<<>>), 200, [models |-> ModelNames(s.value)])
    ELSE Await(c, r, s.fetch, [route |-> "models", provider |-> provider, caught |-> caught])

\* GET /api/models?provider=openai
GetModels ==
    /\ \E c \in Conns :
        /\ Free(c)
        /\ ModelsStart(c, NewRequest("GET", U_api_models_openai, <<>>),
                       GetConfigSecrets(inMemory), P_openai, FALSE)
    /\ nreq' = nreq + 1
    /\ UNCHANGED <<state, adds, inMemory, call>>

\* POST /api/models
PostModels ==
    /\ \E c \in Conns, body \in ModelsBodies :
        /\ Free(c)
        /\ ModelsStart(c, NewRequest("POST", U_api_models, body),
                       Merge(GetConfigSecrets(inMemory), ChatSettings(body)),
                       ToLowerCase(Str(body, "provider")), TRUE)
    /\ nreq' = nreq + 1
    /\ UNCHANGED <<state, adds, inMemory, call>>

\* a models route from the response of the listing request on
ModelsReceive ==
    /\ \E c \in Conns :
        /\ req[c].pc = "await"
        /\ req[c].k.route = "models"
        /\ \E out \in Outcomes(Body_models) :
            LET r == Got(req[c], out)
                d == ListModelsDone(Ctx(r.traced), r.k.provider, r.f, r.t0, out)
            IN  IF Has(d, "value")
                THEN Respond(c, r, d.ctx, 200, [models |-> ModelNames(d.value)])
                ELSE IF r.k.caught
                THEN Respond(c, r, d.ctx, 400, [error |-> d.err])
                ELSE Unhandled(c, r, d.ctx, d.err)
    /\ UNCHANGED <<state, adds, inMemory, nreq, call>>

----------------------------------------------------------------------------
(* POST /api/proxy *)

HTTPS == <<"h","t","t","p","s",":","/","/">>

ProxyPayloads ==
    { [kind |-> "maximo", url |-> <<"/","x">>],
      [kind |-> "maximo", url |-> HTTP \o <<"m",".","e","/","x">>],
      [kind |-> "maximo", url |-> HTTP \o <<"o","/","x">>],
      [kind |-> "rest", url |-> HTTP \o <<"o","/","x">>] }

OutOfBaseMsg ==
    Msg("Maximo proxy URL must be relative or within the configured Maximo base URL.")

\* TypeError of fetch for a URL that is not absolute
InvalidUrlMsg == Msg("Failed to parse URL")

\* String(payload.kind || "rest")
ProxyKind(payload) == IF Has(payload, "kind") THEN payload.kind ELSE "rest"

\* kind === "maximo" ? "maximo" : kind === "ai" ? "ai" : "rest"
ProxyTraceKind(kind) == IF kind \in {"maximo", "ai"} THEN kind ELSE "rest"

\* lines 299-331: the handler up to the fetch: an error, or the request sent.
\* No payload of the model carries a method, headers or a body.
ProxyStart(payload, mem) ==
    LET secrets == GetConfigSecrets(mem)
        kind == ProxyKind(payload)
        urlIn == Str(payload, "url")
        send(url, headers) ==
            IF StartsWith(url, HTTP) \/ StartsWith(url, HTTPS)
            THEN [fetch |-> [url |-> url, method |-> "GET", headers |-> headers]]
            ELSE [err |-> InvalidUrlMsg]
    IN  IF kind = "maximo"
        THEN LET base == NormalizeBase(Str(secrets, "maximoUrl"))
                 apiKey == Str(secrets, "maximoApiKey")
                 url == IF StartsWith(urlIn, <<"/">>)
                        THEN StripTrailingSlash(base) \o urlIn ELSE urlIn
             IN  IF Str(secrets, "maximoUrl") = <<>>
                 THEN [err |-> Msg("Maximo Manage URL is not configured.")]
                 ELSE IF apiKey = <<>> THEN [err |-> Msg("Maximo API key is not configured.")]
                 ELSE IF ~StartsWith(url, base) THEN [err |-> OutOfBaseMsg]
                 ELSE send(url, [ContentType |-> "application/json",
                                 maxauth |-> apiKey, apikey |-> apiKey])
        ELSE IF kind = "ai"
        THEN IF Str(secrets, "aiApiKey") = <<>>
             THEN [err |-> Msg("AI API key is not configured.")]
             ELSE send(urlIn, [Authorization |-> <<"Bearer ">> \o Str(secrets, "aiApiKey"),
                               ContentType |-> "application/json"])
        ELSE send(urlIn, <<>>)

\* POST /api/proxy, up to the response or to the await of the proxied call
PostProxy ==
    /\ \E c \in Conns, payload \in ProxyPayloads :
        /\ Free(c)
        /\ LET r == NewRequest("POST", U_api_proxy, payload)
               s == ProxyStart(payload, inMemory)
           IN  IF Has(s, "err")
               THEN Respond(c, r, Ctx(<<>>), 400, [error |-> s.err])
               ELSE Await(c, r, s.fetch, [route |-> "proxy", kind |-> ProxyKind(payload)])
    /\ nreq' = nreq + 1
    /\ UNCHANGED <<state, adds, inMemory, call>>

\* POST /api/proxy, from the response of the proxied call on (lines 333-361)
ProxyReceive ==
    /\ \E c \in Conns :
        /\ req[c].pc = "await"
        /\ req[c].k.route = "proxy"
        /\ \E out \in Outcomes(Body_member) :
            LET r == Got(req[c], out) IN
            IF out.fail
            THEN /\ Respond(c, r, Ctx(r.traced), 400, [error |-> FetchFailedMsg])
                 /\ UNCHANGED state
            ELSE LET data == DataOrText(out.text)
                     t == Trace(Ctx(r.traced),
                                [kind |-> ProxyTraceKind(r.k.kind), label |-> "Proxy call",
                                 method |-> r.f.method, url |-> r.f.url, status |-> out.status,
                                 durationMs |-> clock - r.t0,
                                 request |-> JVal([headers |-> r.f.headers]),
                                 response |-> data])
                     last == [status |-> out.status, data |-> data]
                 IN  IF t.threw
                     THEN /\ Respond(c, r, t.ctx, 400, [error |-> RangeErrorMsg])
                          /\ UNCHANGED state
                     ELSE /\ state' = SetTraceState(state, [restBuilderDraft |-> r.in,
                                                            restBuilderLastResponse |-> last,
                                                            lastResponse |-> last])
                          /\ Respond(c, r, [t.ctx EXCEPT !.state = state'], out.status, last)
    /\ UNCHANGED <<adds, inMemory, nreq, call>>

----------------------------------------------------------------------------
(* The server: any request may arrive on a free connection, and any awaited *)
(* upstream response may come in.                                           *)

Next ==
    \/ PutTraceState
    \/ PostTraceClear
    \/ GetTrace
    \/ PutConfig
    \/ PostChat
    \/ ChatReceive
    \/ GetModels
    \/ PostModels
    \/ ModelsReceive
    \/ PostProxy
    \/ ProxyReceive

Spec == Init /\ [][Next]_vars

----------------------------------------------------------------------------
(* Properties of the server *)

Ended(c) == req[c].pc \in {"done", "unhandled"}
Done(c) == req[c].pc = "done"
OnRoute(c, url) == req[c].pc # "idle" /\ req[c].url = url

UpstreamKinds == {"ai", "maximo", "models"}

CountKind(traced, kinds) == Cardinality({i \in 1..Len(traced) : traced[i].kind \in kinds})

\* the fetch answered, with a 2xx status
Answered2xx(out) == ~out.fail /\ IsOk(out.status)

\* C3: with tracing enabled, every upstream call of chatCompletionWith and of
\* callMaximoWith whose outcome has arrived has recorded one ai / maximo item,
\* whether the outcome is a 2xx response, another response or a transport
\* failure of the fetch.
C3_EveryUpstreamCallTraced ==
    \A c \in Conns :
        (Done(c) /\ OnRoute(c, U_api_chat) /\ req[c].store.enabled)
            => CountKind(req[c].traced, {"ai", "maximo"}) = Len(req[c].outs)

\* the chat request `body` reaches chatCompletionWith without an apiKey, or
\* callMaximoWith without a base URL or without an API key
MissingCredential(body, mem) ==
    LET secrets == MergedSecrets(body, mem) IN
    IF ChatMode(body) = "ai"
    THEN Str(ResolveProviderAuth(secrets, ChatProvider(body, mem)), "apiKey") = <<>>
    ELSE /\ ~IsSummarize(ToLowerCase(Trim(ChatText(body))))
         /\ \/ Or(Str(secrets, "maximoUrl"), Str(secrets, "maximo_url")) = <<>>
            \/ Or(Str(secrets, "maximoApiKey"), Str(secrets, "maximo_apikey")) = <<>>

ConfigurationErrors ==
    { Msg("AI API key is not configured."), Msg("Maximo Manage URL is not configured."),
      Msg("Maximo API key is not configured.") }

\* C4: a chat request that reaches chatCompletionWith without an apiKey, or
\* callMaximoWith without a base URL or an API key, ends at once with a
\* configuration error: no fetch is issued and no ai / maximo / models item
\* is recorded.
C4_MissingCredentialFailsFast ==
    \A c \in Conns :
        (OnRoute(c, U_api_chat) /\ MissingCredential(req[c].in, inMemory))
            => /\ Done(c)
               /\ req[c].res.status = 400
               /\ req[c].res.body.error \in ConfigurationErrors
               /\ req[c].fetches = <<>>
               /\ CountKind(req[c].traced, UpstreamKinds) = 0

C4_Witness ==
    \E c \in Conns :
        /\ Done(c) /\ OnRoute(c, U_api_chat)
        /\ MissingCredential(req[c].in, inMemory)
        /\ ChatMode(req[c].in) = "maximo"
        /\ req[c].res.body.error = Msg("Maximo Manage URL is not configured.")

\* POST /api/chat {mode: "ai", provider: "openai"} has been answered and no
\* key for openai is configured
AnsweredWithoutKey(c) ==
    /\ Done(c) /\ OnRoute(c, U_api_chat)
    /\ req[c].in = [mode |-> M_ai, provider |-> P_openai, text |-> T_hello]
    /\ Str(ResolveProviderAuth(GetConfigSecrets(inMemory), P_openai), "apiKey") = <<>>

MissingKeyResponse == [status |-> 400, body |-> [error |-> Msg("AI API key is not configured.")]]

AnsweredOpenWorkOrders(c) ==
    /\ Done(c) /\ OnRoute(c, U_api_chat)
    /\ req[c].in = [mode |-> M_maximo, text |-> T_openWO, settings |-> MaximoSettings]
    /\ \A i \in 1..Len(req[c].outs) : Answered2xx(req[c].outs[i])

\* the request issued one call, to mxapiwo with the open filter, and was
\* answered with a reply and the backend's data
OneOpenWorkOrderCall(c) ==
    /\ Len(req[c].fetches) = 1
    /\ StartsWith(req[c].fetches[1].url,
                  HTTP \o <<"m","/","a","p","i","/","o","s","/","m","x","a","p","i","w","o","?">>)
    /\ \E i \in 1..Len(req[c].fetches[1].url) :
          req[c].fetches[1].url[i]
            = "woclass%3D%22WORKORDER%22+and+status+not+in+%5B%22CLOSE%22%2C%22CAN%22%2C%22CANCEL%22%2C%22COMP%22%5D"
    /\ req[c].fetches[1].headers.apikey = K_maximo
    /\ req[c].res.status = 200
    /\ DOMAIN req[c].res.body = {"reply", "maximo", "request"}
    /\ req[c].res.body.maximo = DataOrText(req[c].outs[1].text)
    /\ req[c].res.body.request.os = OS_wo
    /\ req[c].res.body.request.where = Where_open

\* the maximo items of the request that GET /api/trace lists after the response
NewMaximoShown(c) ==
    { x \in req[c].shown :
        /\ x.kind = "maximo"
        /\ \E i \in 1..Len(req[c].traced) : req[c].traced[i].id = x.id }

C7_OnlyStatus400 ==
    \A c \in Conns :
        Done(c) => \/ req[c].res.status = 200
                   \/ req[c].res.status = 400 /\ DOMAIN req[c].res.body = {"error"}

\* url is the base itself or lies under it: same host, path under the base
WithinBase(url, base) ==
    /\ StartsWith(url, base)
    /\ Len(url) > Len(base) => url[Len(base) + 1] \in {"/", "?", "#"}

\* C8: a request issued by POST /api/proxy that carries the backend auth
\* headers goes to a URL within the configured, normalized backend base URL.
C8_AuthHeadersOnlyWithinBase ==
    \A c \in Conns :
        OnRoute(c, U_api_proxy)
            => \A i \in 1..Len(req[c].fetches) :
                  Has(req[c].fetches[i].headers, "maxauth")
                     => WithinBase(req[c].fetches[i].url,
                                   NormalizeBase(Str(GetConfigSecrets(inMemory), "maximoUrl")))

\* C9: a request whose upstream call was answered 2xx is answered with its
\* primary result whatever the trace state is, and no handler is left with
\* an uncaught error.
C9_TraceFailuresSwallowed ==
    \A c \in Conns :
        /\ req[c].pc # "unhandled"
        /\ (Done(c) /\ req[c].outs # <<>> /\ Answered2xx(req[c].outs[1]))
              => req[c].res.status = 200 /\ ~Has(req[c].res.body, "error")

\* the listing failed: transport failure, non-2xx status or unparsable body
FailedListing(out) == out.fail \/ ~IsOk(out.status) \/ ~JsonParse(out.text).ok

\* C10: with tracing enabled, a models request whose listing reached the
\* network has recorded exactly one models item, with its duration, and is
\* answered with a list, the curated list of the provider when the listing
\* failed.
C10_OneModelsItemAndAList ==
    \A c \in Conns :
        (Ended(c) /\ req[c].fetches # <<>> /\ req[c].outs # <<>>
            /\ req[c].url \in {U_api_models, U_api_models_openai} /\ req[c].store.enabled)
            => /\ CountKind(req[c].traced, {"models"}) = 1
               /\ \A i \in 1..Len(req[c].traced) :
                     req[c].traced[i].kind = "models" => Has(req[c].traced[i], "durationMs")
               /\ Done(c)
               /\ req[c].res.status = 200
               /\ DOMAIN req[c].res.body = {"models"}
               /\ FailedListing(req[c].outs[1])
                     => req[c].res.body.models = FallbackByProvider(P_openai)

\* the item x of the store was recorded by the request of connection c
RecordedBy(c, x) == \E i \in 1..Len(req[c].traced) : req[c].traced[i].id = x.id

\* positions of the ai / maximo items of the store recorded by connection c
UpstreamPositions(c) ==
    { p \in 1..Len(items) : items[p].kind \in {"ai", "maximo"} /\ RecordedBy(c, items[p]) }

\* C11: of the upstream items of two requests, the one recorded at the later
\* tick (its call's response arrived later) is nearer the front of the store,
\* whichever request started first.
C11_OrderedByCompletion ==
    \A c1, c2 \in Conns :
        (c1 # c2 /\ Done(c1) /\ Done(c2))
            => \A p1 \in UpstreamPositions(c1), p2 \in UpstreamPositions(c2) :
                  items[p1].id < items[p2].id => p2 < p1

\* the request that started first completed last, and its item is in front
C11_Witness ==
    \E c1, c2 \in Conns :
        /\ c1 # c2 /\ Done(c1) /\ Done(c2)
        /\ req[c1].id < req[c2].id
        /\ \E p1 \in UpstreamPositions(c1), p2 \in UpstreamPositions(c2) :
              items[p1].id > items[p2].id /\ p1 < p2

\* the upstream call failed: no response, or a response that is not 2xx
FailedCall(out) == out.fail \/ ~IsOk(out.status)

ModelsUrls == {U_api_models, U_api_models_openai}

\* at most one fetch per request, and one outcome per fetch
AttemptedOnce(c) ==
    /\ Len(req[c].fetches) <= 1
    /\ Len(req[c].outs) <= Len(req[c].fetches)
    /\ Ended(c) => Len(req[c].outs) = Len(req[c].fetches)

SummarizePrompts == {T_summarize, T_summarizeAssets}

\* r is a backend-mode chat request with a summarize-last-results prompt
SummarizeRequest(r) ==
    /\ r.pc # "idle" /\ r.url = U_api_chat
    /\ ChatMode(r.in) = "maximo"
    /\ ChatText(r.in) \in SummarizePrompts

\* C13: the step in which a backend-mode summarize prompt arrives issues no
\* backend query, whatever keywords or maximoOS the prompt carries: without a
\* prior maximo item in the store it answers 400 with the user-facing error;
\* otherwise, the response of the most recent maximo item being non-empty and
\* the provider's key resolving, it sends that response to the AI provider.
C13_SummarizeUsesLastResult ==
    [][ \A c \in Conns :
          (req[c].pc \in {"idle", "done", "unhandled"} /\ req'[c] # req[c]
              /\ SummarizeRequest(req'[c]))
            => LET prior == SelectKind(items, "maximo")
                   r == req'[c]
                   auth == ResolveProviderAuth(MergedSecrets(r.in, inMemory),
                                               ChatProvider(r.in, inMemory))
               IN  /\ \A i \in 1..Len(r.fetches) : ~Has(r.fetches[i].headers, "maxauth")
                   /\ prior = <<>>
                        => /\ r.pc = "done"
                           /\ r.res = [status |-> 400, body |-> [error |-> NoResultsMsg]]
                           /\ r.fetches = <<>>
                   /\ (prior # <<>> /\ Truthy(prior[1].response) /\ Has(auth, "apiKey"))
                        => /\ r.pc = "await"
                           /\ Len(r.fetches) = 1
                           /\ Has(r.fetches[1].headers, "Authorization")
                           /\ r.fetches[1].body.prompt.payload.of = prior[1].response
                           /\ r.k.last = prior[1].response
    ]_vars

\* a summarize prompt that carries an object-type keyword and a maximoOS has
\* been sent to the AI provider with the last backend result
C13_Witness ==
    \E c \in Conns :
        /\ SummarizeRequest(req[c])
        /\ ChatText(req[c].in) = T_summarizeAssets
        /\ Has(req[c].in, "maximoOS")
        /\ Len(req[c].fetches) = 1
        /\ Has(req[c].fetches[1].headers, "Authorization")
        /\ req[c].fetches[1].body.prompt.payload.of = DataOrText(Body_member)

----------------------------------------------------------------------------
(* The query heuristics of POST /api/chat applied to bounded prompts *)

PromptWords ==
    { <<"l","o","c","a","t","i","o","n">>,
      <<"A","s","s","e","t">>,
      <<"s","e","r","v","i","c","e"," ","r","e","q","u","e","s","t">>,
      <<"s","r">>,
      <<"i","n","v","e","n","t","o","r","y">>,
      <<"c","o","r","r","e","c","t","i","v","e">>,
      <<"O","P","E","N">>,
      <<"w","o","r","k"," ","o","r","d","e","r">>,
      <<"w","o">>,
      <<"a","l","l">>,
      <<"s","h","o","w">> }

RECURSIVE JoinWords(_)
JoinWords(ws) ==
    IF Len(ws) = 1 THEN ws[1] ELSE ws[1] \o <<" ">> \o JoinWords(Tail(ws))

T_correctiveWO == <<"s","h","o","w"," ","m","e"," ","a","l","l"," ","c","o","r","r","e","c","t","i","v","e"," ","w","o","r","k"," ","o","r","d","e","r","s">>
T_locations == <<"s","h","o","w"," ","m","e"," ","a","l","l"," ","l","o","c","a","t","i","o","n","s">>

Prompts ==
    {T_correctiveWO, T_locations}
        \cup { JoinWords(ws) : ws \in UNION { [1..n -> PromptWords] : n \in 1..MaxWords } }

InitClassify ==
    /\ items = <<>>
    /\ state = [enabled |-> TRUE, maxItems |-> DefaultMaxItems]
    /\ clock = 0
    /\ adds = NoRun
    /\ inMemory = <<>>
    /\ req = [c \in Conns |-> Idle]
    /\ nreq = 0
    /\ \E q \in Prompts : call = [fn |-> "prompt", q |-> q]

\* lines 150-199 for a request without maximoOS
CallClassify ==
    /\ call.fn = "prompt"
    /\ call' = [fn |-> "classify", q |-> call.q, result |-> Classify(Trim(call.q), <<>>)]
    /\ UNCHANGED <<items, state, clock, adds, inMemory, req, nreq>>

SpecClassify == InitClassify /\ [][CallClassify]_vars

\* the keywords as the claim names them, looked for in the lower-cased text
Mentions(l, word) == Includes(l, word)
WorkOrderKeyword(l) ==
    Mentions(l, <<"w","o","r","k"," ","o","r","d","e","r">>)
        \/ Mentions(l, <<"w","o","r","k","o","r","d","e","r">>) \/ Mentions(l, <<"w","o">>)
ServiceRequestKeyword(l) ==
    Mentions(l, <<"s","e","r","v","i","c","e"," ","r","e","q","u","e","s","t">>)
        \/ Mentions(l, <<"s","e","r","v","i","c","e","r","e","q","u","e","s","t">>)
        \/ Mentions(l, <<"s","r">>)

FirstMatchOS(l) ==
    IF Mentions(l, <<"l","o","c","a","t","i","o","n">>) THEN OS_location
    ELSE IF Mentions(l, <<"a","s","s","e","t">>) THEN OS_asset
    ELSE IF ServiceRequestKeyword(l) THEN OS_sr
    ELSE IF Mentions(l, <<"i","n","v","e","n","t","o","r","y">>) THEN OS_inv
    ELSE OS_wo

CorrectiveRule(l) == Mentions(l, <<"c","o","r","r","e","c","t","i","v","e">>) /\ WorkOrderKeyword(l)
OpenRule(l) == Mentions(l, <<"o","p","e","n">>) /\ WorkOrderKeyword(l)
AllServiceRequestsRule(l) == ServiceRequestKeyword(l) /\ Mentions(l, <<"a","l","l">>)

\* C14: the classification of a prompt is given by its lower-cased text: the
\* object type is the first match of location, asset, service request,
\* inventory, else work order; the filter is CORRECTIVE, else open, else none;
\* the page size is 100 exactly when a compound rule fires, else 50; and the
\* two prompts named by the claim classify as it says.
C14_FixedPriority ==
    call.fn = "classify"
        => LET l == ToLowerCase(call.q)
               r == call.result
           IN  /\ r.os = FirstMatchOS(l)
               /\ r.where = (IF CorrectiveRule(l) THEN Where_corrective
                             ELSE IF OpenRule(l) THEN Where_open ELSE "")
               /\ r.pageSize = (IF CorrectiveRule(l) \/ OpenRule(l) \/ AllServiceRequestsRule(l)
                                THEN 100 ELSE 50)
               /\ call.q = T_correctiveWO
                    => r.os = OS_wo /\ r.pageSize = 100
                       /\ r.where = "woclass=\"WORKORDER\" and worktype=\"CORRECTIVE\""
               /\ call.q = T_locations => r.os = OS_location /\ r.where = ""

\* a prompt in mixed case naming a location and open work orders has been
\* classified
C14_Witness ==
    /\ call.fn = "classify"
    /\ Includes(ToLowerCase(call.q), <<"w","o">>)
    /\ call.q # ToLowerCase(call.q)
    /\ call.result.os = OS_location
    /\ call.result.where = Where_open
    /\ call.result.pageSize = 100

----------------------------------------------------------------------------
(* The trace store driven directly through its exported functions *)

StorePartials ==
    { [kind |-> "ai", label |-> "Chat completion", method |-> "POST", status |-> 200,
       durationMs |-> 1],
      [kind |-> "models", provider |-> "openai", ok |-> FALSE, durationMs |-> 0] }

StatePatches ==
    { [enabled |-> b] : b \in BOOLEAN } \cup { [maxItems |-> m] : m \in (-1)..MaxCap }

StoreAdd ==
    /\ clock < MaxAdds
    /\ \E p \in StorePartials :
        /\ items' = AddTrace(items, state, p, clock + 1).items
        /\ clock' = clock + 1
        /\ adds' = ExtendRun(adds, state, clock + 1)
    /\ UNCHANGED <<state, inMemory, req, nreq, call>>

StoreClear ==
    /\ items' = <<>>
    /\ adds' = NoRun
    /\ UNCHANGED <<state, clock, inMemory, req, nreq, call>>

StoreSetState ==
    /\ \E p \in StatePatches : state' = SetTraceState(state, p)
    /\ UNCHANGED <<items, clock, adds, inMemory, req, nreq, call>>

StoreNext == StoreAdd \/ StoreClear \/ StoreSetState

SpecStore == Init /\ [][StoreNext]_vars

\* the calls since the store was last empty were all made on an enabled store
\* with one and the same capacity M >= 0
UniformRun == adds.ok /\ adds.ids # <<>>

\* C1: after N addTrace calls on an empty, enabled store with maxItems = M the
\* store holds min(N, M) items, newest first: they are the min(N, M) newest of
\* the N, so the ones gone are exactly the N - M oldest.
C1_BoundedNewestFirst ==
    UniformRun =>
        LET N == Len(adds.ids)
            K == Min(N, adds.m)
        IN  /\ Len(items) = K
            /\ \A j \in 1..K : items[j].id = adds.ids[N - j + 1]

C1_Witness ==
    /\ UniformRun
    /\ adds.m >= 2
    /\ Len(adds.ids) >= adds.m + 2
    /\ Len(items) = adds.m

----------------------------------------------------------------------------
(* resolveProviderAuth applied to bounded settings objects *)

\* the objects with one optional key k whose value, when present, is in vals
Opt(k, vals) == {<<>>} \cup {[x \in {k} |-> v] : v \in vals}

AuthSecrets ==
    { Merge(Merge(Merge(a, b), Merge(c, d)), Merge(Merge(e, f), g)) :
        a \in Opt("openai_key", {<<" ">>, <<"k","1">>, <<" ","k","1"," ">>}),
        b \in Opt("openai_baseurl", {<<"u","1">>}),
        c \in Opt("openai_base", {<<"u","2">>}),
        d \in Opt("aiProvider", {P_openai, <<"O","p","e","n","A","I">>, P_mistral}),
        e \in Opt("aiApiKey", {<<"g","1">>, <<"g","2">>}),
        f \in Opt("aiBaseUrl", {<<"u","3">>}),
        g \in Opt("mistral_key", {<<"m","1">>}) }

AuthProviders == {P_openai, P_mistral, P_other}

InitAuth ==
    /\ items = <<>>
    /\ state = [enabled |-> TRUE, maxItems |-> DefaultMaxItems]
    /\ clock = 0
    /\ adds = NoRun
    /\ inMemory = <<>>
    /\ req = [c \in Conns |-> Idle]
    /\ nreq = 0
    /\ \E s \in AuthSecrets, p \in AuthProviders :
        call = [fn |-> "args", secrets |-> s, provider |-> p]

CallResolveProviderAuth ==
    /\ call.fn = "args"
    /\ call' = [fn |-> "resolveProviderAuth", secrets |-> call.secrets,
                provider |-> call.provider,
                result |-> ResolveProviderAuth(call.secrets, call.provider)]
    /\ UNCHANGED <<items, state, clock, adds, inMemory, req, nreq>>

SpecAuth == InitAuth /\ [][CallResolveProviderAuth]_vars

IsAuthCall == call.fn = "resolveProviderAuth"

\* the provider-specific values of the call's settings, as the claim reads them
SpecificKey == Trim(MapEntry(call.secrets, call.provider).key)
SpecificBase == Trim(MapEntry(call.secrets, call.provider).baseUrl)

\* the call's settings with the two generic credential fields replaced
WithGeneric(g) == Merge([k \in DOMAIN call.secrets \ {"aiApiKey", "aiBaseUrl"} |-> call.secrets[k]], g)

GenericVariants ==
    { Merge(e, f) : e \in Opt("aiApiKey", {<<"g","1">>, <<"g","2">>, <<"g","9">>}),
                    f \in Opt("aiBaseUrl", {<<"u","3">>, <<"u","9">>}) }

\* what C2 claims of a call, `designated` being the condition under which the
\* generic fields may be used for the provider asked for
NoLeak(designated) ==
    IsAuthCall =>
        /\ SpecificKey # <<>> => Has(call.result, "apiKey") /\ call.result.apiKey = SpecificKey
        /\ SpecificBase # <<>> => Has(call.result, "baseUrl") /\ call.result.baseUrl = SpecificBase
        /\ ~designated =>
            /\ Has(call.result, "apiKey") => SpecificKey # <<>>
            /\ Has(call.result, "baseUrl") => SpecificBase # <<>>
            /\ \A g \in GenericVariants :
                   ResolveProviderAuth(WithGeneric(g), call.provider) = call.result

\* C2 as stated: the generic aiApiKey/aiBaseUrl are used only when
\* settings.aiProvider equals the provider name, and otherwise do not
\* influence the result.
C2_NoLeakExactName == NoLeak(Str(call.secrets, "aiProvider") = call.provider)

\* C2 amended: resolveProviderAuth returns the trimmed provider-specific key
\* and base URL when they are not blank; the generic aiApiKey/aiBaseUrl are
\* used only when settings.aiProvider, lower-cased, equals the provider name,
\* and otherwise two settings objects that differ only in them give the same
\* result.
C2_NoLeakLowerCasedName == NoLeak(ToLowerCase(Str(call.secrets, "aiProvider")) = call.provider)

C2_Witness ==
    /\ IsAuthCall
    /\ call.provider = P_openai
    /\ Str(call.secrets, "aiProvider") = P_mistral
    /\ Has(call.secrets, "aiApiKey")
    /\ SpecificKey = <<>>
    /\ ~Has(call.result, "apiKey")

----------------------------------------------------------------------------
(* chatCompletionWith called for providers the build does not know *)

P_llama == <<"l","l","a","m","a">>

UnknownProviders == {P_other, P_llama}

RecognizedProviders == {P_openai, P_mistral, P_watsonx, P_deepseek, P_anthropic, P_gemini}

UnknownProviderSecrets ==
    { Merge(Merge(Merge(a, b), Merge(c, d)), e) :
        a \in Opt("aiProvider", {P_other, <<"O","t","h","e","r">>, P_openai}),
        b \in Opt("aiApiKey", {<<"g","1">>, <<" ">>}),
        c \in Opt("aiBaseUrl", {<<"u","3">>}),
        d \in Opt("openai_key", {<<"k","1">>}),
        e \in Opt("aiModel", {<<"m","1">>}) }

InitChatWith ==
    /\ items = <<>>
    /\ state = [enabled |-> TRUE, maxItems |-> DefaultMaxItems]
    /\ clock = 0
    /\ adds = NoRun
    /\ inMemory = <<>>
    /\ req = [c \in Conns |-> Idle]
    /\ nreq = 0
    /\ \E s \in UnknownProviderSecrets, p \in UnknownProviders :
        call = [fn |-> "chatArgs", secrets |-> s, provider |-> p]

\* part_004:260-271 and chatCompletionWith up to its fetch, for the request
\* {mode: "ai", provider, text: "hello"} over the settings call.secrets
CallChatCompletionWith ==
    /\ call.fn = "chatArgs"
    /\ call' = [fn |-> "chatCompletionWith", secrets |-> call.secrets,
                provider |-> call.provider,
                result |-> ChatCompletionStart(
                               ChatArgs([mode |-> M_ai, provider |-> call.provider,
                                         text |-> T_hello, settings |-> call.secrets],
                                        <<>>, "", [text |-> T_hello]))]
    /\ UNCHANGED <<items, state, clock, adds, inMemory, req, nreq>>

SpecChatWith == InitChatWith /\ [][CallChatCompletionWith]_vars

UnsupportedProviderError(provider) ==
    [msg |-> "Provider is not supported by this build.", provider |-> provider]

\* the settings give a key for a provider without fields of its own: the
\* generic aiApiKey, aiProvider naming the provider
GenericKeyNames(secrets, provider) ==
    /\ ToLowerCase(Str(secrets, "aiProvider")) = provider
    /\ Trim(Str(secrets, "aiApiKey")) # <<>>

\* C15 as stated: a chat call for a provider that is not recognized raises
\* the unsupported-provider error, for every settings object.
C15_UnsupportedProviderError ==
    (call.fn = "chatCompletionWith" /\ call.provider \notin RecognizedProviders)
        => call.result = [err |-> UnsupportedProviderError(call.provider)]

\* C15 amended: a chat call for a provider that is not recognized never
\* reaches the network; it raises the unsupported-provider error when an API
\* key resolves for that provider, and the missing-key error when none does.
C15_UnsupportedWhenKeyResolves ==
    (call.fn = "chatCompletionWith" /\ call.provider \notin RecognizedProviders)
        => call.result = IF GenericKeyNames(call.secrets, call.provider)
                         THEN [err |-> UnsupportedProviderError(call.provider)]
                         ELSE [err |-> Msg("AI API key is not configured.")]

C15_Witness ==
    /\ call.fn = "chatCompletionWith"
    /\ call.provider = P_other
    /\ Str(call.secrets, "aiProvider") = <<"O","t","h","e","r">>
    /\ call.result = [err |-> UnsupportedProviderError(P_other)]

----------------------------------------------------------------------------
(* listTraces applied to bounded stores *)

\* the stores of n items: kinds as kindOf gives them, ids n down to 1
HeldItems ==
    { [j \in 1..n |-> [id |-> n - j + 1, ts |-> n - j + 1, kind |-> kindOf[j]]] :
        n \in 0..MaxHeld, kindOf \in [1..MaxHeld -> {"ai", "maximo"}] }

ListLimits == ((-1)..MaxLimit) \cup {200}

InitList ==
    /\ items \in HeldItems
    /\ \E m \in (-1)..MaxCap : state = [enabled |-> TRUE, maxItems |-> m]
    /\ clock = Len(items)
    /\ adds = NoRun
    /\ inMemory = <<>>
    /\ req = [c \in Conns |-> Idle]
    /\ nreq = 0
    /\ \E kind \in {"", "ai", "maximo"}, limit \in ListLimits :
        call = [fn |-> "listArgs", kind |-> kind, limit |-> limit]

CallListTraces ==
    /\ call.fn = "listArgs"
    /\ call' = [fn |-> "listTraces", kind |-> call.kind, limit |-> call.limit,
                result |-> ListTraces(items, state, call.kind, call.limit)]
    /\ UNCHANGED <<items, state, clock, adds, inMemory, req, nreq>>

SpecList == InitList /\ [][CallListTraces]_vars

\* the items of the store that the kind filter of the call lets through
OfKind == { p \in 1..Len(items) : call.kind = "" \/ items[p].kind = call.kind }

\* the result holds items of the store of the requested kind, newest first,
\* and no item of that kind left out is newer than one returned
NewestOfKind(result) ==
    /\ \A j \in 1..Len(result) : \E p \in OfKind : items[p] = result[j]
    /\ \A i, j \in 1..Len(result) : i < j => result[i].id > result[j].id
    /\ \A p \in OfKind :
          (\A j \in 1..Len(result) : result[j] # items[p])
              => \A j \in 1..Len(result) : items[p].id < result[j].id

\* C16 as stated: listTraces(kind, limit) returns at most min(limit, maxItems)
\* items, all of the requested kind, newest first, the newest of that kind.
C16_AtMostMinLimitMaxItems ==
    call.fn = "listTraces"
        => /\ Len(call.result) <= Max(0, Min(call.limit, state.maxItems))
           /\ NewestOfKind(call.result)

\* C16 amended: listTraces(kind, limit) returns max(1, min(limit, maxItems))
\* items, or all the items of the kind when there are fewer: one item even
\* when limit or maxItems is zero or negative.
C16_AtLeastOneListed ==
    call.fn = "listTraces"
        => /\ Len(call.result)
                = Min(Max(1, Min(call.limit, state.maxItems)), Cardinality(OfKind))
           /\ NewestOfKind(call.result)

C16_Witness ==
    /\ call.fn = "listTraces"
    /\ call.kind = "maximo"
    /\ call.limit = 2
    /\ state.maxItems >= 2
    /\ Len(call.result) = 2
    /\ Cardinality(OfKind) = 3

----------------------------------------------------------------------------
(* addTrace on a disabled store *)

\* C17: a call of addTrace made while the enabled flag is false (the step of
\* the store harness that advances the clock) leaves the item sequence and
\* the trace state as they were.
C17_DisabledAddIsNoOp ==
    [][ (clock' # clock /\ ~state.enabled) => (items' = items /\ state' = state) ]_vars

\* two calls were made on the disabled store after the first item was kept
C17_Witness ==
    /\ state = [enabled |-> FALSE, maxItems |-> DefaultMaxItems]
    /\ clock = 3
    /\ Len(items) = 1
    /\ items[1].id = 1

----------------------------------------------------------------------------
(* Settings written under both spellings of a key, then used by the gateway *)

U_a == HTTP \o <<"a">>
U_b == HTTP \o <<"b">>

\* the two spellings of each logical key, and the values written to it
Spellings ==
    [maximoUrl |-> {"maximoUrl", "maximo_url"},
     maximoApiKey |-> {"maximoApiKey", "maximo_apikey"},
     openaiBase |-> {"openai_baseurl", "openai_base"}]

WrittenValues ==
    [maximoUrl |-> {U_a, U_b}, maximoApiKey |-> {<<"k","a">>, <<"k","b">>},
     openaiBase |-> {U_a, U_b}]

\* a settings object that sets one spelling of one logical key
OneKeySettings ==
    UNION { { [x \in {k} |-> v] : k \in Spellings[l], v \in WrittenValues[l] } :
              l \in DOMAIN Spellings }

LogicalKey(k) == CHOOSE l \in DOMAIN Spellings : k \in Spellings[l]

\* latest after the settings object o (of one key) has been written
Written(latest, o) ==
    LET k == CHOOSE k \in DOMAIN o : TRUE
    IN  [latest EXCEPT ![LogicalKey(k)] = o[k]]

NothingWritten == [l \in DOMAIN Spellings |-> <<>>]

InitSettings ==
    /\ items = <<>>
    /\ state = [enabled |-> TRUE, maxItems |-> DefaultMaxItems]
    /\ clock = 0
    /\ adds = NoRun
    /\ inMemory = <<>>
    /\ req = [c \in Conns |-> Idle]
    /\ nreq = 0
    /\ call = [fn |-> "writes", n |-> 0, latest |-> NothingWritten]

\* updateConfig({secrets: o})
SettingsWrite ==
    /\ call.fn = "writes"
    /\ call.n < MaxWrites
    /\ \E o \in OneKeySettings :
        /\ inMemory' = UpdateConfig(inMemory, [secrets |-> o])
        /\ call' = [fn |-> "writes", n |-> call.n + 1, latest |-> Written(call.latest, o)]
    /\ UNCHANGED <<items, state, clock, adds, req, nreq>>

\* a request with request-scoped settings o (part_004:144-146): the merged
\* secrets, the backend call and the provider credentials made from them
SettingsUse ==
    /\ call.fn = "writes"
    /\ \E o \in OneKeySettings \cup {<<>>} :
        LET merged == MergedSecrets([settings |-> o], inMemory) IN
        call' = [fn |-> "use", scoped |-> o, merged |-> merged,
                 latest |-> IF o = <<>> THEN call.latest ELSE Written(call.latest, o),
                 maximo |-> CallMaximoStart(merged, <<"/","x">>, "GET"),
                 auth |-> ResolveProviderAuth(merged, P_openai)]
    /\ UNCHANGED <<items, state, clock, adds, inMemory, req, nreq>>

SettingsNext == SettingsWrite \/ SettingsUse

SpecSettings == InitSettings /\ [][SettingsNext]_vars

BothSpellings(secrets, l) == \A k \in Spellings[l] : Str(secrets, k) # <<>>

\* C18: when both spellings of a key are present in the settings a call is
\* made with, the backend URL, the backend API key and the provider base URL
\* the gateway uses are the values written most recently.
C18_MostRecentSpellingWins ==
    call.fn = "use"
        => /\ (Has(call.maximo, "fetch") /\ BothSpellings(call.merged, "maximoUrl"))
                => call.maximo.fetch.url = call.latest.maximoUrl \o <<"/","x">>
           /\ (Has(call.maximo, "fetch") /\ BothSpellings(call.merged, "maximoApiKey"))
                => call.maximo.fetch.headers.apikey = call.latest.maximoApiKey
           /\ BothSpellings(call.merged, "openaiBase")
                => call.auth.baseUrl = call.latest.openaiBase

\* the same for calls made without request-scoped settings: holds
C18_StoredSettingsOnly ==
    (call.fn = "use" /\ call.scoped = <<>>) => C18_MostRecentSpellingWins

----------------------------------------------------------------------------
(* proxy.ts: JSON texts.  A JavaScript value is tagged with its type; an     *)
(* object is the sequence of its members in insertion order.  Numbers are    *)
(* integers; a text is a sequence of characters.                             *)

JsNull == [t |-> "null"]
JsBool(b) == [t |-> "bool", b |-> b]
JsNum(n) == [t |-> "num", n |-> n]
JsStr(str) == [t |-> "str", s |-> str]
JsArr(elems) == [t |-> "arr", a |-> elems]
JsObj(members) == [t |-> "obj", m |-> members]

DQ == "\""
BS == "\\"

RECURSIVE Flatten(_)
Flatten(ss) == IF ss = <<>> THEN <<>> ELSE Head(ss) \o Flatten(Tail(ss))

RECURSIVE JoinComma(_)
JoinComma(ss) ==
    IF ss = <<>> THEN <<>>
    ELSE IF Len(ss) = 1 THEN ss[1]
    ELSE ss[1] \o <<",">> \o JoinComma(Tail(ss))

RECURSIVE NatChars(_)
NatChars(n) ==
    IF n < 10 THEN <<Digits[n + 1]>> ELSE NatChars(n \div 10) \o <<Digits[(n % 10) + 1]>>

NumChars(n) == IF n < 0 THEN <<"-">> \o NatChars(0 - n) ELSE NatChars(n)

EscapeChar(c) ==
    CASE c = DQ -> <<BS, DQ>>
      [] c = BS -> <<BS, BS>>
      [] c = "\n" -> <<BS, "n">>
      [] c = "\t" -> <<BS, "t">>
      [] OTHER -> <<c>>

QuoteString(str) == <<DQ>> \o Flatten([i \in 1..Len(str) |-> EscapeChar(str[i])]) \o <<DQ>>

\* a quoted string whose characters are written as they are
QuoteStringRaw(str) == <<DQ>> \o str \o <<DQ>>

RECURSIVE JSON_stringifyWith(_, _)
JSON_stringifyWith(v, raw) ==
    LET q(str) == IF raw THEN QuoteStringRaw(str) ELSE QuoteString(str) IN
    CASE v.t = "null" -> <<"n","u","l","l">>
      [] v.t = "bool" -> IF v.b THEN <<"t","r","u","e">> ELSE <<"f","a","l","s","e">>
      [] v.t = "num" -> NumChars(v.n)
      [] v.t = "str" -> q(v.s)
      [] v.t = "arr" ->
            <<"[">> \o JoinComma([i \in 1..Len(v.a) |-> JSON_stringifyWith(v.a[i], raw)]) \o <<"]">>
      [] v.t = "obj" ->
            <<"{">> \o JoinComma([i \in 1..Len(v.m) |->
                          q(v.m[i].k) \o <<":">> \o JSON_stringifyWith(v.m[i].v, raw)])
                   \o <<"}">>

\* JSON.stringify without the escapes of string characters
JSON_stringifyUnescaped(v) == JSON_stringifyWith(v, TRUE)

\* JSON.stringify(v)
JSON_stringify(v) == JSON_stringifyWith(v, FALSE)

ParseFail == [ok |-> FALSE]
Parsed(v, rest) == [ok |-> TRUE, v |-> v, rest |-> rest]

RECURSIVE SkipWs(_)
SkipWs(text) == IF text # <<>> /\ text[1] \in WhiteSpace THEN SkipWs(Tail(text)) ELSE text

\* the characters of a string literal after its opening quote
RECURSIVE ParseStringBody(_, _)
ParseStringBody(text, acc) ==
    IF text = <<>> \/ text[1] \in {"\n", "\t"} THEN ParseFail
    ELSE IF text[1] = DQ THEN Parsed(acc, Tail(text))
    ELSE IF text[1] = BS
         THEN IF Len(text) < 2 THEN ParseFail
              ELSE IF text[2] \in {DQ, BS, "/"}
                   THEN ParseStringBody(Tail(Tail(text)), Append(acc, text[2]))
              ELSE IF text[2] = "n" THEN ParseStringBody(Tail(Tail(text)), Append(acc, "\n"))
              ELSE IF text[2] = "t" THEN ParseStringBody(Tail(Tail(text)), Append(acc, "\t"))
              ELSE ParseFail
    ELSE ParseStringBody(Tail(text), Append(acc, text[1]))

RECURSIVE ParseNat(_, _)
ParseNat(text, acc) ==
    IF text # <<>> /\ IsDigit(text[1])
    THEN ParseNat(Tail(text), 10 * acc + DigitValue(text[1]))
    ELSE Parsed(acc, text)

\* a number: no leading zeros
ParseNumber(text) ==
    LET neg == text[1] = "-"
        ds == IF neg THEN Tail(text) ELSE text
    IN  IF ds = <<>> \/ ~IsDigit(ds[1]) THEN ParseFail
        ELSE LET r == IF ds[1] = "0" THEN Parsed(0, Tail(ds)) ELSE ParseNat(ds, 0)
             IN  Parsed(JsNum(IF neg THEN 0 - r.v ELSE r.v), r.rest)

\* a member added to an object: a repeated key keeps its place and takes the
\* later value
PutMember(members, k, v) ==
    IF \E i \in 1..Len(members) : members[i].k = k
    THEN [i \in 1..Len(members) |-> IF members[i].k = k THEN [k |-> k, v |-> v] ELSE members[i]]
    ELSE Append(members, [k |-> k, v |-> v])

RECURSIVE ParseValue(_)
RECURSIVE ParseElements(_, _)
RECURSIVE ParseMembers(_, _)

ParseValue(text0) ==
    LET text == SkipWs(text0) IN
    IF text = <<>> THEN ParseFail
    ELSE IF StartsWith(text, <<"n","u","l","l">>) THEN Parsed(JsNull, SubSeq(text, 5, Len(text)))
    ELSE IF StartsWith(text, <<"t","r","u","e">>)
         THEN Parsed(JsBool(TRUE), SubSeq(text, 5, Len(text)))
    ELSE IF StartsWith(text, <<"f","a","l","s","e">>)
         THEN Parsed(JsBool(FALSE), SubSeq(text, 6, Len(text)))
    ELSE IF text[1] = DQ
         THEN LET r == ParseStringBody(Tail(text), <<>>)
              IN  IF r.ok THEN Parsed(JsStr(r.v), r.rest) ELSE ParseFail
    ELSE IF text[1] = "[" THEN ParseElements(Tail(text), <<>>)
    ELSE IF text[1] = "{" THEN ParseMembers(Tail(text), <<>>)
    ELSE ParseNumber(text)

\* the elements of an array after "[" or after a comma
ParseElements(text0, acc) ==
    LET text == SkipWs(text0) IN
    IF acc = <<>> /\ StartsWith(text, <<"]">>) THEN Parsed(JsArr(<<>>), Tail(text))
    ELSE LET r == ParseValue(text) IN
         IF ~r.ok THEN ParseFail
         ELSE LET rest == SkipWs(r.rest) IN
              IF rest = <<>> THEN ParseFail
              ELSE IF rest[1] = "," THEN ParseElements(Tail(rest), Append(acc, r.v))
              ELSE IF rest[1] = "]" THEN Parsed(JsArr(Append(acc, r.v)), Tail(rest))
              ELSE ParseFail

\* the members of an object after "{" or after a comma
ParseMembers(text0, acc) ==
    LET text == SkipWs(text0) IN
    IF acc = <<>> /\ StartsWith(text, <<"}">>) THEN Parsed(JsObj(<<>>), Tail(text))
    ELSE IF ~StartsWith(text, <<DQ>>) THEN ParseFail
    ELSE LET k == ParseStringBody(Tail(text), <<>>) IN
         IF ~k.ok THEN ParseFail
         ELSE LET colon == SkipWs(k.rest) IN
              IF ~StartsWith(colon, <<":">>) THEN ParseFail
              ELSE LET r == ParseValue(Tail(colon)) IN
                   IF ~r.ok THEN ParseFail
                   ELSE LET rest == SkipWs(r.rest)
                            members == PutMember(acc, k.v, r.v)
                        IN  IF rest = <<>> THEN ParseFail
                            ELSE IF rest[1] = "," THEN ParseMembers(Tail(rest), members)
                            ELSE IF rest[1] = "}" THEN Parsed(JsObj(members), Tail(rest))
                            ELSE ParseFail

\* JSON.parse(text): [ok |-> FALSE] where it throws
JSON_parse(text) ==
    LET r == ParseValue(text)
    IN  IF r.ok /\ SkipWs(r.rest) = <<>> THEN [ok |-> TRUE, value |-> r.v] ELSE ParseFail

----------------------------------------------------------------------------
(* proxy.ts: proxy(req).  A headers object maps header names (character      *)
(* sequences, in the letter case they were written) to values.               *)

UpperChar(c) ==
    IF \E i \in 1..26 : Lower[i] = c
    THEN Upper[CHOOSE i \in 1..26 : Lower[i] = c]
    ELSE c

\* String.prototype.toUpperCase
ToUpperCase(str) == [i \in 1..Len(str) |-> UpperChar(str[i])]

M_GET == <<"G","E","T">>
M_HEAD == <<"H","E","A","D">>
H_content_type == <<"c","o","n","t","e","n","t","-","t","y","p","e">>

ProxyMethod(r) == ToUpperCase(Or(Str(r, "method"), M_GET))
ProxyHeaders(r) == IF Has(r, "headers") THEN r.headers ELSE <<>>
ProxySendsBody(r) ==
    Has(r, "body") /\ r.body # JsNull /\ ProxyMethod(r) \notin {M_GET, M_HEAD}

\* headers with the default content type where headers["content-type"] is falsy
WithDefaultContentType(headers, default) ==
    IF Has(headers, H_content_type) /\ headers[H_content_type] # ""
    THEN headers
    ELSE Merge(headers, [k \in {H_content_type} |-> default])

\* proxy(), up to its fetch: the arguments of fetch
ProxyFetchArgs(r) ==
    LET sent == [url |-> r.url, method |-> ProxyMethod(r)] IN
    IF ~ProxySendsBody(r) THEN Merge(sent, [headers |-> ProxyHeaders(r)])
    ELSE IF r.body.t = "str"
         THEN Merge(sent, [headers |-> WithDefaultContentType(ProxyHeaders(r), "text/plain"),
                           body |-> r.body.s])
    ELSE Merge(sent, [headers |-> WithDefaultContentType(ProxyHeaders(r), "application/json"),
                      body |-> JSON_stringify(r.body)])

\* proxy(), from the response of fetch: the value returned
ProxyReturn(res) ==
    [ok |-> IsOk(res.status), status |-> res.status, text |-> res.text,
     json |-> IF res.text = <<>> THEN JsNull
              ELSE IF JSON_parse(res.text).ok THEN JSON_parse(res.text).value
              ELSE JsNull]

----------------------------------------------------------------------------
(* proxy() called with requests of every shape *)

ProxyMethods == { <<"g","e","t">>, <<"P","O","S","T">>, <<"p","o","s","t">>,
                  <<"h","e","a","d">>, <<"P","U","T">> }

H_Content_Type == <<"C","o","n","t","e","n","t","-","T","y","p","e">>
H_CONTENT_TYPE == ToUpperCase(H_content_type)
H_accept == <<"a","c","c","e","p","t">>

ProxyHeaderSets ==
    { [k \in {H_content_type} |-> "text/csv"],
      [k \in {H_Content_Type} |-> "text/csv"],
      [k \in {H_CONTENT_TYPE} |-> "text/csv"],
      [k \in {H_accept} |-> "*/*"],
      [k \in {H_accept, H_Content_Type} |-> IF k = H_accept THEN "*/*" ELSE "application/xml"] }

V_object ==
    JsObj(<< [k |-> <<"a">>, v |-> JsNum(1)],
             [k |-> <<"b">>, v |-> JsArr(<<JsStr(<<"x", DQ, "y">>), JsBool(TRUE), JsNull>>)] >>)
V_numbers == JsArr(<<JsNum(12), JsNum(-3), JsNum(0)>>)
V_path == JsObj(<< [k |-> <<"p">>, v |-> JsStr(<<"c", ":", BS, "t", "\n">>)] >>)
V_empty == JsObj(<<>>)
V_text == JsStr(<<"h","i">>)
V_jsonText == JsStr(<<"{", DQ, "a", DQ, ":", "1", "}">>)

StructuredBodies == {V_object, V_numbers, V_path, V_empty, JsBool(FALSE)}
ProxyBodies == StructuredBodies \cup {V_text, V_jsonText, JsNull}

ProxyRequests ==
    { Merge(Merge([url |-> HTTP \o <<"o">>], m), Merge(h, b)) :
        m \in {<<>>} \cup { [method |-> x] : x \in ProxyMethods },
        h \in {<<>>} \cup { [headers |-> x] : x \in ProxyHeaderSets },
        b \in {<<>>} \cup { [body |-> x] : x \in ProxyBodies } }

\* texts an upstream answers with, besides the body it was sent
Text_html == <<"<","h","t","m","l",">">>
Text_truncated == <<"{", DQ, "a", DQ, ":">>
Text_spaced == <<"{", " ", DQ, "a", DQ, " ", ":", " ", "1", " ", "}">>
Text_trailing == <<"1", " ", "x">>

UpstreamTexts(sent) ==
    {<<>>, Text_html, Text_truncated, Text_spaced, Text_trailing}
        \cup (IF Has(sent, "body") THEN {sent.body} ELSE {})

InitProxy ==
    /\ items = <<>>
    /\ state = [enabled |-> TRUE, maxItems |-> DefaultMaxItems]
    /\ clock = 0
    /\ adds = NoRun
    /\ inMemory = <<>>
    /\ req = [c \in Conns |-> Idle]
    /\ nreq = 0
    /\ \E r \in ProxyRequests : call = [fn |-> "proxyArgs", req |-> r]

\* proxy(req) runs to `await fetch(...)`
CallProxyFetch ==
    /\ call.fn = "proxyArgs"
    /\ call' = [fn |-> "proxyFetch", req |-> call.req, sent |-> ProxyFetchArgs(call.req)]
    /\ UNCHANGED <<items, state, clock, adds, inMemory, req, nreq>>

\* fetch resolves with a response and proxy() returns
CallProxyReturn ==
    /\ call.fn = "proxyFetch"
    /\ \E status \in {200, 500}, text \in UpstreamTexts(call.sent) :
        LET res == [status |-> status, text |-> text] IN
        call' = [fn |-> "proxyReturned", req |-> call.req, sent |-> call.sent,
                 res |-> res, returned |-> ProxyReturn(res)]
    /\ UNCHANGED <<items, state, clock, adds, inMemory, req, nreq>>

\* fetch rejects and proxy() rethrows
CallProxyRejected ==
    /\ call.fn = "proxyFetch"
    /\ call' = [fn |-> "proxyThrew", req |-> call.req, sent |-> call.sent,
                error |-> "fetch failed"]
    /\ UNCHANGED <<items, state, clock, adds, inMemory, req, nreq>>

ProxyNext == CallProxyFetch \/ CallProxyReturn \/ CallProxyRejected

SpecProxy == InitProxy /\ [][ProxyNext]_vars

\* the names, in any letter case, under which a headers object has a content type
ContentTypeNames(headers) == { k \in DOMAIN headers : ToLowerCase(k) = H_content_type }

\* C19: proxy() sends the default content type (text/plain for a string body,
\* application/json for a structured one) when the caller set no content-type
\* header in any letter case; when the caller set one, the request sent has
\* the caller's content-type header and no other.
C19_DefaultOnlyWhenCallerSetNone ==
    call.fn = "proxyFetch"
        => LET theirs == ProxyHeaders(call.req)
               sent == call.sent.headers
           IN  /\ (ContentTypeNames(theirs) = {} /\ ProxySendsBody(call.req))
                    => /\ ContentTypeNames(sent) = {H_content_type}
                       /\ sent[H_content_type] =
                            IF call.req.body.t = "str" THEN "text/plain" ELSE "application/json"
               /\ ContentTypeNames(theirs) # {}
                    => /\ ContentTypeNames(sent) = ContentTypeNames(theirs)
                       /\ \A k \in ContentTypeNames(theirs) : sent[k] = theirs[k]

\* the same for callers that write the header name in lower case: holds
C19_LowerCaseCallers ==
    (call.fn = "proxyFetch" /\ ContentTypeNames(ProxyHeaders(call.req)) \subseteq {H_content_type})
        => C19_DefaultOnlyWhenCallerSetNone

\* a request with a structured body that is sent, and no content-type header
StructuredNoContentType(r) ==
    /\ ProxySendsBody(r)
    /\ r.body.t # "str"
    /\ ContentTypeNames(ProxyHeaders(r)) = {}

\* C20: a non-GET/HEAD request with a structured body and no content-type is
\* sent as the JSON text of the body with content-type application/json; when
\* the upstream answers with that text, the json returned equals the body;
\* when the response text is empty or is not JSON, json is null and proxy()
\* returns (the only error it raises is a rejection of fetch).
C20_RoundTrip ==
    /\ (call.fn \in {"proxyFetch", "proxyReturned"} /\ StructuredNoContentType(call.req))
         => /\ call.sent.body = JSON_stringify(call.req.body)
            /\ call.sent.headers[H_content_type] = "application/json"
    /\ (call.fn = "proxyReturned" /\ StructuredNoContentType(call.req)
          /\ call.res.text = call.sent.body)
         => call.returned.json = call.req.body
    /\ (call.fn = "proxyReturned"
          /\ call.res.text \in {<<>>, Text_html, Text_truncated, Text_trailing})
         => call.returned.json = JsNull
    /\ call.fn = "proxyThrew" => call.error = "fetch failed"

\* a body with quotes, backslashes and nesting came back equal, and a text
\* that is not JSON came back as null
C20_Witness ==
    /\ call.fn = "proxyReturned"
    /\ StructuredNoContentType(call.req)
    /\ call.req.body \in {V_object, V_path}
    /\ call.res.text = call.sent.body
    /\ call.returned.json = call.req.body
    /\ call.returned.text # <<>>

----------------------------------------------------------------------------
(* Failed attempts of POST /api/chat and POST /api/proxy *)

\* in this step the handler of connection c sends its response
Answers(c) ==
    /\ req'[c].pc = "done"
    /\ req[c].pc # "done" \/ req[c].id # req'[c].id

\* r was answered with an error: a chat or proxy request that did not succeed
FailedAttempt(r) ==
    /\ r.pc = "done"
    /\ r.url \in {U_api_chat, U_api_proxy}
    /\ r.res.status # 200

\* the upstream call of r was answered (with any status)
UpstreamAnswered(r) == r.outs # <<>> /\ ~r.outs[Len(r.outs)].fail

BuilderFields == {"restBuilderDraft", "restBuilderLastResponse", "lastResponse"}

----------------------------------------------------------------------------
(* POST /api/trace/clear followed by GET /api/trace *)

\* the request of connection c is an answered clear, the last request the
\* server accepted, and nothing was recorded since it was answered
JustCleared(c) ==
    /\ Done(c) /\ req[c].url = U_api_trace_clear
    /\ req[c].res = [status |-> 200, body |-> [ok |-> TRUE]]
    /\ req[c].id = nreq
    /\ req[c].traced # <<>> => req[c].traced[Len(req[c].traced)].id = clock

OnlyTheClearItem(its, r) ==
    /\ Len(its) <= 1
    /\ \A i \in 1..Len(its) :
          /\ its[i].kind = "rest" /\ its[i].url = U_api_trace_clear
          /\ \E j \in 1..Len(r.traced) : r.traced[j].id = its[i].id

----------------------------------------------------------------------------
(* The backend base URL as callMaximoWith and POST /api/proxy normalize it *)

BaseHosts == { <<"m">>, <<"a","p","i">> }
BaseSegments ==
    { <<>>, <<"x">>, <<"a","p","i">>, <<"o","s","l","c">>, <<"O","S","L","C">>,
      <<"a","p","i","s">> }

\* http://host followed by up to MaxSegs segments; an empty last segment is a
\* trailing slash
BaseUrls ==
    { HTTP \o h \o Flatten([i \in 1..Len(segs) |-> <<"/">> \o segs[i]]) :
        h \in BaseHosts,
        segs \in UNION { [1..n -> BaseSegments] : n \in 0..MaxSegs } }

P_x == <<"/","x">>

InitBase ==
    /\ items = <<>>
    /\ state = [enabled |-> TRUE, maxItems |-> DefaultMaxItems]
    /\ clock = 0
    /\ adds = NoRun
    /\ inMemory = <<>>
    /\ req = [c \in Conns |-> Idle]
    /\ nreq = 0
    /\ \E b \in BaseUrls : call = [fn |-> "baseArgs", base |-> b]

\* callMaximoWith({maximoUrl: base, maximoApiKey}, "/x", "GET") up to its fetch
CallMaximoWithBase ==
    /\ call.fn = "baseArgs"
    /\ call' = [fn |-> "callMaximoWith", base |-> call.base,
                url |-> CallMaximoStart([maximoUrl |-> call.base, maximoApiKey |-> K_maximo],
                                        P_x, "GET").fetch.url]
    /\ UNCHANGED <<items, state, clock, adds, inMemory, req, nreq>>

\* POST /api/proxy {kind: "maximo", url: "/x"} up to its fetch, the base
\* being the stored maximoUrl
CallProxyWithBase ==
    /\ call.fn = "baseArgs"
    /\ LET s == ProxyStart([kind |-> "maximo", url |-> P_x],
                           [maximoUrl |-> call.base, maximoApiKey |-> K_maximo])
       IN  call' = [fn |-> "proxy", base |-> call.base,
                    url |-> IF Has(s, "fetch") THEN s.fetch.url ELSE <<>>]
    /\ UNCHANGED <<items, state, clock, adds, inMemory, req, nreq>>

BaseNext == CallMaximoWithBase \/ CallProxyWithBase

SpecBase == InitBase /\ [][BaseNext]_vars

\* what callMaximoWith put in front of the path
PrefixedBase == SubSeq(call.url, 1, Len(call.url) - Len(P_x))

EndsWithSlash(u) == u # <<>> /\ u[Len(u)] = "/"

\* C23: the base that callMaximoWith prefixes to the path has no trailing
\* slash, has no /oslc or /api segment left (alone or followed by a sub-path),
\* and is the configured URL up to its trailing slash or up to such a segment.
C23_NormalizedBaseIsRoot ==
    call.fn = "callMaximoWith"
        => LET b == PrefixedBase
               cut == SubSeq(call.base, Len(b) + 1, Len(call.base))
           IN  /\ ~EndsWithSlash(b)
               /\ \A i \in 1..Len(b) : ~ApiSuffixAt(b, i)
               /\ StartsWith(call.base, b)
               /\ cut \in {<<>>, <<"/">>} \/ ApiSuffixAt(cut, 1)

\* the same without the trailing slash: holds
C23_NoSegmentLeftAndPrefixKept ==
    call.fn = "callMaximoWith"
        => LET b == PrefixedBase
               cut == SubSeq(call.base, Len(b) + 1, Len(call.base))
           IN  /\ \A i \in 1..Len(b) : ~ApiSuffixAt(b, i)
               /\ StartsWith(call.base, b)
               /\ cut \in {<<>>, <<"/">>} \/ ApiSuffixAt(cut, 1)

----------------------------------------------------------------------------
(* The ids returned for a successful listing of the filtered provider *)

ID_gpt_4o == <<"g","p","t","-","4","o">>
ID_davinci == <<"t","e","x","t","-","d","a","v","i","n","c","i","-","0","0","3">>
ID_gpt_41_mini == <<"g","p","t","-","4",".","1","-","m","i","n","i">>
ID_gpt_9 == <<"g","p","t","-","9">>
ID_gpt_10 == <<"g","p","t","-","1","0">>
ID_GPT_4o == <<"G","P","T","-","4","o">>
ID_whisper == <<"w","h","i","s","p","e","r","-","1">>
ID_instruct == <<"g","p","t","-","3",".","5","-","t","u","r","b","o","-","i","n","s","t","r","u","c","t">>

ListedIdPool == {ID_gpt_4o, ID_davinci, ID_gpt_41_mini, ID_gpt_9, ID_gpt_10, ID_GPT_4o, ID_whisper, ID_instruct}

Listings == UNION { [1..n -> ListedIdPool] : n \in 0..MaxIds }

InitListing ==
    /\ items = <<>>
    /\ state = [enabled |-> TRUE, maxItems |-> DefaultMaxItems]
    /\ clock = 0
    /\ adds = NoRun
    /\ inMemory = <<>>
    /\ req = [c \in Conns |-> Idle]
    /\ nreq = 0
    /\ \E ids \in Listings : call = [fn |-> "listingArgs", ids |-> ids]

\* the tail of listModelsWithSecrets("openai") for a listing answered 200
CallListedModels ==
    /\ call.fn = "listingArgs"
    /\ call' = [fn |-> "listed", ids |-> call.ids, result |-> ListedModels(P_openai, call.ids)]
    /\ UNCHANGED <<items, state, clock, adds, inMemory, req, nreq>>

SpecListing == InitListing /\ [][CallListedModels]_vars

Range(seq) == { seq[i] : i \in 1..Len(seq) }

\* the ids a listing should give: the modern, non-legacy ones when there is
\* one, otherwise all
ExpectedIds(ids) ==
    LET modern == { id \in Range(ids) : IsPreferred(id) }
    IN  IF modern # {} THEN modern ELSE Range(ids)

Ascending(seq) == \A i, j \in 1..Len(seq) : i < j => LocaleCompare(seq[i], seq[j]) <= 0

NoDuplicates(seq) == \A i, j \in 1..Len(seq) : i # j => seq[i] # seq[j]

\* C24 as stated: the ids returned for a successful listing of openai are the
\* modern, non-legacy ids when there is one, otherwise all ids, without
\* duplicates, in ascending numeric-aware order.
C24_FilteredSorted ==
    call.fn = "listed"
        => /\ Range(call.result) = ExpectedIds(call.ids)
           /\ NoDuplicates(call.result)
           /\ Ascending(call.result)

\* C24 amended: the same for a listing that holds at least one id; a listing
\* without ids gives the curated list of the provider, in its curated order.
C24_FilteredSortedOrCurated ==
    call.fn = "listed"
        => IF call.ids = <<>> THEN call.result = FallbackByProvider(P_openai)
           ELSE /\ Range(call.result) = ExpectedIds(call.ids)
                /\ NoDuplicates(call.result)
                /\ Ascending(call.result)

\* the listing of the example: the legacy id is left out and the rest sorted
C24_Witness ==
    /\ call.fn = "listed"
    /\ call.ids = <<ID_gpt_4o, ID_davinci, ID_gpt_41_mini>>
    /\ call.result = <<ID_gpt_41_mini, ID_gpt_4o>>

----------------------------------------------------------------------------
(* The serialized payload of the summarize branch.  A long text is kept as   *)
(* its runs: <<[c |-> "a", n |-> 3], [c |-> "b", n |-> 1]>> is "aaab"; no    *)
(* two adjacent runs have the same character.                                *)

Run(c, n) == [c |-> c, n |-> n]

RECURSIVE RunLength(_)
RunLength(t) == IF t = <<>> THEN 0 ELSE t[1].n + RunLength(Tail(t))

\* t.slice(0, k)
RECURSIVE RunSlice(_, _)
RunSlice(t, k) ==
    IF k <= 0 \/ t = <<>> THEN <<>>
    ELSE IF t[1].n <= k THEN <<t[1]>> \o RunSlice(Tail(t), k - t[1].n)
    ELSE <<Run(t[1].c, k)>>

\* t + u
RunConcat(t, u) ==
    IF t = <<>> THEN u
    ELSE IF u = <<>> THEN t
    ELSE IF t[Len(t)].c = u[1].c
    THEN SubSeq(t, 1, Len(t) - 1) \o <<Run(u[1].c, t[Len(t)].n + u[1].n)>> \o Tail(u)
    ELSE t \o u

\* t[i - 1], for 1 <= i <= t.length
RECURSIVE RunCharAt(_, _)
RunCharAt(t, i) == IF i <= t[1].n THEN t[1].c ELSE RunCharAt(Tail(t), i - t[1].n)

\* "\n...TRUNCATED"
TruncationMarker ==
    <<Run("\n", 1), Run(".", 3), Run("T", 1), Run("R", 1), Run("U", 1), Run("N", 1),
      Run("C", 1), Run("A", 1), Run("T", 1), Run("E", 1), Run("D", 1)>>

\* A slip: the cut keeps one character more than the limit.
BoundedPayloadOffByOne(payload) ==
    IF RunLength(payload) > PayloadLimit
    THEN RunConcat(RunSlice(payload, PayloadLimit + 1), TruncationMarker)
    ELSE payload

\* line 220: if (payload.length > 120_000) payload = payload.slice(0, 120_000) + marker
BoundedPayload(payload) ==
    IF RunLength(payload) > PayloadLimit
    THEN RunConcat(RunSlice(payload, PayloadLimit), TruncationMarker)
    ELSE payload

\* serialized payloads: a first run of "a" and a tail of "." of 0..MaxTail
FirstRuns == {1, 5, PayloadLimit - 2, PayloadLimit - 1, PayloadLimit, PayloadLimit + 1}

Payloads ==
    { <<Run("a", n)>> \o (IF m = 0 THEN <<>> ELSE <<Run(".", m)>>) :
        n \in FirstRuns, m \in 0..MaxTail }

InitPayload ==
    /\ items = <<>>
    /\ state = [enabled |-> TRUE, maxItems |-> DefaultMaxItems]
    /\ clock = 0
    /\ adds = NoRun
    /\ inMemory = <<>>
    /\ req = [c \in Conns |-> Idle]
    /\ nreq = 0
    /\ \E t \in Payloads : call = [fn |-> "payloadArgs", payload |-> t]

\* the summarize branch bounds the serialized payload
CallBoundedPayload ==
    /\ call.fn = "payloadArgs"
    /\ call' = [fn |-> "bounded", payload |-> call.payload, sent |-> BoundedPayload(call.payload)]
    /\ UNCHANGED <<items, state, clock, adds, inMemory, req, nreq>>

SpecPayload == InitPayload /\ [][CallBoundedPayload]_vars

\* the positions up to k at which a text of runs may change its character
RunEnds(t, k) ==
    { i \in { RunLength(SubSeq(t, 1, j)) + d : j \in 0..Len(t), d \in {0, 1} } :
        i >= 1 /\ i <= k /\ i <= RunLength(t) }

\* t and u have the same first k characters
SamePrefix(t, u, k) ==
    /\ RunLength(t) >= k /\ RunLength(u) >= k
    /\ \A i \in RunEnds(t, k) \cup RunEnds(u, k) \cup {j \in {1, k} : j >= 1} :
          RunCharAt(t, i) = RunCharAt(u, i)

\* C25: the payload sent is never longer than 120,000 characters plus the
\* marker; a payload of at most 120,000 characters is sent as it is, a longer
\* one as its first 120,000 characters followed by the marker.
C25_PayloadBounded ==
    call.fn = "bounded"
        => LET m == RunLength(TruncationMarker) IN
           /\ m = 13
           /\ RunLength(call.sent) <= 120000 + m
           /\ RunLength(call.payload) <= 120000 => call.sent = call.payload
           /\ RunLength(call.payload) > 120000
                => /\ RunLength(call.sent) = 120000 + m
                   /\ SamePrefix(call.sent, call.payload, 120000)
                   /\ \A i \in 1..m :
                         RunCharAt(call.sent, 120000 + i) = RunCharAt(TruncationMarker, i)

\* a payload one character too long, whose cut falls inside its tail
C25_Witness ==
    /\ call.fn = "bounded"
    /\ RunLength(call.payload) = PayloadLimit + 1
    /\ Len(call.payload) = 2 /\ call.payload[2].n > 1
    /\ RunLength(call.sent) = PayloadLimit + 13

----------------------------------------------------------------------------
(* The size of the trace store under changes of maxItems *)

\* C26: in every state reached by addTrace, clearTraces and setTraceState
\* calls in any order, the store holds at most maxItems items.
C26_AtMostMaxItems == Len(items) <= state.maxItems

\* the bound as addTrace restores it: right after an addTrace call on an
\* enabled store whose maxItems is not negative: holds
C26_AtMostMaxItemsAfterAdd ==
    [][ (clock' # clock /\ state.enabled /\ state.maxItems >= 0)
            => Len(items') <= state'.maxItems ]_vars

----------------------------------------------------------------------------
(* The endpoint a provider's key is sent to *)

AllProviders == { f.name : f \in ProviderFields }

FieldsOf(provider) == CHOOSE f \in ProviderFields : f.name = provider

\* settings that hold fields of the provider p and the generic fields
EndpointSecrets(p) ==
    { Merge(Merge(Merge(a, b), Merge(c, d)), Merge(e, f)) :
        a \in Opt(FieldsOf(p).key, {K_openai}),
        b \in Opt(FieldsOf(p).baseurl, {U_a, U_a \o <<"/">>}),
        c \in Opt(FieldsOf(p).base, {U_b}),
        d \in Opt("aiProvider", {p}),
        e \in Opt("aiApiKey", {<<"g","1">>}),
        f \in Opt("aiBaseUrl", {HTTP \o <<"g">>}) }

InitEndpoint ==
    /\ items = <<>>
    /\ state = [enabled |-> TRUE, maxItems |-> DefaultMaxItems]
    /\ clock = 0
    /\ adds = NoRun
    /\ inMemory = <<>>
    /\ req = [c \in Conns |-> Idle]
    /\ nreq = 0
    /\ \E p \in AllProviders : \E secrets \in EndpointSecrets(p) :
        call = [fn |-> "endpointArgs", provider |-> p, secrets |-> secrets]

\* chatCompletionWith called with the credentials resolved for the provider,
\* up to its fetch
CallChatEndpoint ==
    /\ call.fn = "endpointArgs"
    /\ LET auth == ResolveProviderAuth(call.secrets, call.provider) IN
       call' = [fn |-> "chatCompletionWith", provider |-> call.provider,
                secrets |-> call.secrets, auth |-> auth,
                start |-> ChatCompletionStart(
                              Merge(auth, [provider |-> call.provider, model |-> DefaultModel,
                                           temperature |-> "0.2",
                                           prompt |-> [text |-> T_hello]]))]
    /\ UNCHANGED <<items, state, clock, adds, inMemory, req, nreq>>

\* listModelsWithSecrets up to its fetch
CallModelsEndpoint ==
    /\ call.fn = "endpointArgs"
    /\ call' = [fn |-> "listModelsWithSecrets", provider |-> call.provider,
                secrets |-> call.secrets,
                auth |-> ResolveProviderAuth(call.secrets, call.provider),
                start |-> ListModelsStart(call.secrets, call.provider)]
    /\ UNCHANGED <<items, state, clock, adds, inMemory, req, nreq>>

EndpointNext == CallChatEndpoint \/ CallModelsEndpoint

SpecEndpoint == InitEndpoint /\ [][EndpointNext]_vars

\* the default endpoints that belong to a provider
OwnDefaults(provider) ==
    CASE provider = P_openai -> {OpenAIDefaultBase}
      [] provider = P_anthropic -> {AnthropicDefaultBase}
      [] provider = P_gemini -> {GeminiDefaultBase}
      [] OTHER -> {}

\* the call sends its request to the base URL resolved for its provider or
\* to a default endpoint of its provider
SentToOwnEndpoint ==
    LET url == call.start.fetch.url IN
    \/ Has(call.auth, "baseUrl") /\ StartsWith(url, StripTrailingSlash(call.auth.baseUrl))
    \/ \E d \in OwnDefaults(call.provider) : StartsWith(url, d)

\* C27: every request that chatCompletionWith or listModelsWithSecrets sends
\* with the key resolved for a provider goes to the base URL resolved for
\* that provider or to a default endpoint of that provider.
C27_KeySentToOwnEndpoint ==
    (call.fn \in {"chatCompletionWith", "listModelsWithSecrets"} /\ Has(call.start, "fetch"))
        => SentToOwnEndpoint

\* the same for the providers that have a default endpoint of their own, and
\* for every provider with a base URL: holds
C27_OwnEndpointWhenBaseOrDefault ==
    (call.fn \in {"chatCompletionWith", "listModelsWithSecrets"} /\ Has(call.start, "fetch")
        /\ (Has(call.auth, "baseUrl") \/ OwnDefaults(call.provider) # {}))
        => SentToOwnEndpoint

----------------------------------------------------------------------------
(* Backend-query routing of a prompt with a caller-supplied maximoOS *)

OS_WO_upper == ToUpperCase(OS_wo)

RoutingOS == {<<>>, OS_wo, OS_WO_upper, OS_asset, OS_sr}

\* lines 150-256 for a request whose body carries the prompt and maximoOS
CallRouting ==
    /\ call.fn = "prompt"
    /\ \E uiOS \in RoutingOS :
        LET c == Classify(Trim(call.q), ChatUiOS([maximoOS |-> uiOS])) IN
        call' = [fn |-> "routed", q |-> call.q, uiOS |-> uiOS, result |-> c,
                 path |-> QueryPath(c)]
    /\ UNCHANGED <<items, state, clock, adds, inMemory, req, nreq>>

SpecRouting == InitClassify /\ [][CallRouting]_vars

\* the query is made on the work-order object structure
OnWorkOrders(c) == ToLowerCase(c.os) = OS_wo

\* C28: a work-order filter and the work-order field list are put into the
\* query only when the object structure queried is the work-order one, for
\* every prompt and every caller-supplied maximoOS.
C28_WorkOrderFilterOnlyOnWorkOrders ==
    call.fn = "routed"
        => /\ call.result.where \in {Where_corrective, Where_open} => OnWorkOrders(call.result)
           /\ call.result.select = Select_wo => OnWorkOrders(call.result)

\* the same for prompts that carry no work-order keyword: holds
C28_NoFilterWithoutWorkOrderKeyword ==
    (call.fn = "routed" /\ ~IsWO(ToLowerCase(call.q)))
        => /\ call.result.where = ""
           /\ call.result.select = Select_wo => OnWorkOrders(call.result)

----------------------------------------------------------------------------
(* A backend query followed by a summarize request, on a server whose trace  *)
(* state was set beforehand (PUT /api/trace/state)                           *)

InitSummarize ==
    /\ items = <<>>
    /\ \E e \in BOOLEAN, m \in 1..MaxCap : state = [enabled |-> e, maxItems |-> m]
    /\ clock = 0
    /\ adds = NoRun
    /\ inMemory = <<>>
    /\ req = [c \in Conns |-> Idle]
    /\ nreq = 0
    /\ call = NoCall

SummarizeNext == PostChat \/ ChatReceive \/ PostTraceClear

SpecSummarize == InitSummarize /\ [][SummarizeNext]_vars

\* the request of connection c is a backend query answered with a result, the
\* last request the server accepted, and nothing was recorded since
JustQueried(c) ==
    /\ Done(c) /\ req[c].url = U_api_chat
    /\ ChatMode(req[c].in) = "maximo" /\ ~SummarizeRequest(req[c])
    /\ req[c].res.status = 200
    /\ req[c].id = nreq
    /\ req[c].traced # <<>> => req[c].traced[Len(req[c].traced)].id = clock

\* the summarize request r was sent to the AI provider with the result v
Summarizes(r, v) ==
    /\ r.pc = "await"
    /\ Len(r.fetches) = 1
    /\ r.fetches[1].body.prompt.payload.of = v
    /\ r.k.last = v

\* a summarize request, whose provider key resolves, arrives on connection c
\* right after the query of connection c1 was answered, tracing being enabled
SummarizeFollowsQuery(c, c1) ==
    /\ JustQueried(c1)
    /\ state.enabled
    /\ req[c].pc \in {"idle", "done", "unhandled"} /\ req'[c] # req[c]
    /\ SummarizeRequest(req'[c])
    /\ Has(ResolveProviderAuth(MergedSecrets(req'[c].in, inMemory),
                               ChatProvider(req'[c].in, inMemory)), "apiKey")

----------------------------------------------------------------------------
(* The fields of the caller's partial in the stored item *)

\* the fields of TraceItem a caller of addTrace can supply, id and ts aside
SuppliedFields == {"kind", "provider", "ok", "label", "method", "url", "status",
                   "durationMs", "request", "response", "error"}

\* the item it is the one addTrace stored for a partial p that the store's
\* callers pass, and it carries the fields fs of p
StoredWith(it, fs) ==
    \E p \in StorePartials :
        /\ it = MakeItem(p, clock')
        /\ \A f \in fs \cap DOMAIN p : Has(it, f) /\ it[f] = p[f]

\* C30: the item stored by addTrace carries every field the caller supplied,
\* kind, provider, ok, label, method, url, status, durationMs, request,
\* response and error, with the caller's value.
C30_StoredItemCarriesEveryField ==
    [][ (clock' # clock /\ state.enabled /\ state.maxItems >= 1)
            => StoredWith(items'[1], SuppliedFields) ]_vars

\* the fields addTrace copies are carried with the caller's value: holds
C30_StoredItemCarriesCopiedFields ==
    [][ (clock' # clock /\ state.enabled /\ state.maxItems >= 1)
            => StoredWith(items'[1], CopiedFields) ]_vars

====
